---- MODULE Spec2Model ----
(***************************************************************************)
(* NordVPN WireGuard config generator: the server selection, ranking and   *)
(* output naming pipeline of nord_config_generator (main.py: the           *)
(* ConfigurationOrchestrator and its callers; generator.py: the Generator).*)
(*                                                                         *)
(* Python str values that the code inspects character by character are     *)
(* sequences of one-character strings; values that are only compared for   *)
(* equality are TLA+ strings.                                              *)
(***************************************************************************)
EXTENDS Integers, Sequences, FiniteSets, TLC

(***************************************************************************)
(* str primitives                                                          *)
(***************************************************************************)
LowerChars == <<"a","b","c","d","e","f","g","h","i","j","k","l","m",
                "n","o","p","q","r","s","t","u","v","w","x","y","z">>
UpperChars == <<"A","B","C","D","E","F","G","H","I","J","K","L","M",
                "N","O","P","Q","R","S","T","U","V","W","X","Y","Z">>
DigitChars == <<"0","1","2","3","4","5","6","7","8","9">>

Min(a, b) == IF a <= b THEN a ELSE b

\* str.isdigit() of one character
IsDigit(c) == \E i \in 1..10 : DigitChars[i] = c

\* str.lower() / str.upper() of one character
LowerC(c) ==
    IF \E i \in 1..26 : UpperChars[i] = c
    THEN LowerChars[CHOOSE i \in 1..26 : UpperChars[i] = c]
    ELSE c
UpperC(c) ==
    IF \E i \in 1..26 : LowerChars[i] = c
    THEN UpperChars[CHOOSE i \in 1..26 : LowerChars[i] = c]
    ELSE c

StrLower(s) == [i \in 1..Len(s) |-> LowerC(s[i])]
StrUpper(s) == [i \in 1..Len(s) |-> UpperC(s[i])]
\* str.capitalize(): first character upper-cased, the rest lower-cased
StrCapitalize(s) == [i \in 1..Len(s) |-> IF i = 1 THEN UpperC(s[i]) ELSE LowerC(s[i])]

\* s.replace(a, b) for single characters a, b
ReplaceChar(s, a, b) == [i \in 1..Len(s) |-> IF s[i] = a THEN b ELSE s[i]]

\* s.replace(c, '') / s.translate(deletion table): drop every character of cs
RECURSIVE RemoveChars(_, _)
RemoveChars(s, cs) ==
    IF s = <<>> THEN <<>>
    ELSE IF Head(s) \in cs THEN RemoveChars(Tail(s), cs)
         ELSE <<Head(s)>> \o RemoveChars(Tail(s), cs)

\* s.startswith(p)
StartsWith(s, p) == Len(p) <= Len(s) /\ SubSeq(s, 1, Len(p)) = p

\* p in s (substring test)
Contains(s, p) ==
    \E i \in 1..(Len(s) - Len(p) + 1) : SubSeq(s, i, i + Len(p) - 1) = p

\* s.replace(old, ''): every non-overlapping occurrence, left to right
RECURSIVE RemoveAll(_, _)
RemoveAll(s, old) ==
    IF s = <<>> \/ old = <<>> THEN s
    ELSE IF StartsWith(s, old)
         THEN RemoveAll(SubSeq(s, Len(old) + 1, Len(s)), old)
         ELSE <<Head(s)>> \o RemoveAll(Tail(s), old)

\* s.split(sep) for a single-character separator: a sequence of words
RECURSIVE SplitAcc(_, _, _)
SplitAcc(s, sep, cur) ==
    IF s = <<>> THEN <<cur>>
    ELSE IF Head(s) = sep THEN <<cur>> \o SplitAcc(Tail(s), sep, <<>>)
         ELSE SplitAcc(Tail(s), sep, cur \o <<Head(s)>>)
Split(s, sep) == SplitAcc(s, sep, <<>>)

\* sep.join(words)
RECURSIVE Join(_, _)
Join(words, sep) ==
    IF words = <<>> THEN <<>>
    ELSE IF Len(words) = 1 THEN words[1]
         ELSE words[1] \o <<sep>> \o Join(Tail(words), sep)

\* s[:n]
Prefix(s, n) == SubSeq(s, 1, Min(n, Len(s)))
\* s[:-n]
DropLast(s, n) == SubSeq(s, 1, Len(s) - n)

\* str(n) for n >= 0: decimal digits
RECURSIVE IntToStr(_)
IntToStr(n) ==
    IF n < 10 THEN <<DigitChars[n + 1]>>
    ELSE IntToStr(n \div 10) \o <<DigitChars[(n % 10) + 1]>>

\* elements of a sequence
Range(seq) == {seq[i] : i \in 1..Len(seq)}

(***************************************************************************)
(* str literals of the program                                             *)
(***************************************************************************)
LEGACY_PREFIX     == <<"l","e","g","a","c","y","_">>
LEGACY_STANDARD   == <<"l","e","g","a","c","y","_","s","t","a","n","d","a","r","d">>
LEGACY_P2P        == <<"l","e","g","a","c","y","_","p","2","p">>
LEGACY_DOUBLE_VPN == <<"l","e","g","a","c","y","_","d","o","u","b","l","e","_","v","p","n">>
LEGACY_DEDICATED_IP ==
    <<"l","e","g","a","c","y","_","d","e","d","i","c","a","t","e","d","_","i","p">>
ALIAS_STANDARD     == <<"s","t","a","n","d","a","r","d">>
ALIAS_P2P          == <<"p","2","p">>
ALIAS_DEDICATED_IP == <<"d","e","d","i","c","a","t","e","d","_","i","p">>
EUROPE       == <<"e","u","r","o","p","e">>
ASIA_PACIFIC == <<"a","s","i","a","_","p","a","c","i","f","i","c">>
\* region_keywords = ['europe', 'america', 'asia', 'africa']
region_keywords == << <<"e","u","r","o","p","e">>, <<"a","m","e","r","i","c","a">>,
                      <<"a","s","i","a">>, <<"a","f","r","i","c","a">> >>
STR_UNKNOWN == <<"U","n","k","n","o","w","n">>
STR_OTHER   == <<"O","t","h","e","r">>
STR_CONFIGS == <<"c","o","n","f","i","g","s">>
STR_BEST_CONFIGS == <<"b","e","s","t","_","c","o","n","f","i","g","s">>
STR_CONF == <<".","c","o","n","f">>
STR_WG   == <<"w","g">>
\* the characters deleted by _path_sanitizer: < > : " / \ | ? * NUL
PATH_SANITIZER_CHARS == {"<", ">", ":", "\"", "/", "\\", "|", "?", "*"}

(***************************************************************************)
(* Optional[List[str]] preferences: None, or a list (possibly empty)       *)
(***************************************************************************)
NoneList == [none |-> TRUE, items |-> <<>>]
ListOf(items) == [none |-> FALSE, items |-> items]
\* Python truthiness of an Optional[List]: neither None nor empty
Truthy(l) == ~l.none /\ l.items # <<>>

\* iteration order of a set of str: fixed for one process by its hash seed,
\* different from process to process; order lists every group identifier
SetIter(S, order) == SelectSeq(order, LAMBDA x : x \in S)

(***************************************************************************)
(* ConfigurationOrchestrator._determine_server_type                        *)
(***************************************************************************)
format_word(word) == IF Len(word) <= 3 THEN StrUpper(word) ELSE StrCapitalize(word)

format_type_name(type_id) ==
    LET name  == RemoveAll(type_id, LEGACY_PREFIX)
        words == Split(name, "_")
    IN  Join([i \in 1..Len(words) |-> format_word(words[i])], "_")

\* the legacy_ types of the record the labelling may use
candidate_types(group_identifiers, user_selected_types) ==
    LET legacy_types == {g \in group_identifiers : StartsWith(g, LEGACY_PREFIX)}
    IN  IF Truthy(user_selected_types)
        THEN {t \in legacy_types : t \in Range(user_selected_types.items)}
        ELSE legacy_types

\* the type identifier the label is formatted from (<<>> stands for "Other")
determine_type_id(group_identifiers, type_priority, user_selected_types, order) ==
    LET legacy_types == candidate_types(group_identifiers, user_selected_types)
        hits == SelectSeq(type_priority, LAMBDA t : t \in legacy_types)
    IN  IF legacy_types = {} THEN <<>>
        ELSE IF hits # <<>> THEN hits[1]
        ELSE SetIter(legacy_types, order)[1]

determine_server_type(group_identifiers, type_priority, user_selected_types, order) ==
    LET t == determine_type_id(group_identifiers, type_priority, user_selected_types, order)
    IN  IF t = <<>> THEN STR_OTHER ELSE format_type_name(t)

(***************************************************************************)
(* Raw API records.  A record is                                           *)
(*   [name, hostname, station : str, load : [present, valid, value],       *)
(*    locations : Seq([latitude, longitude, country : [name, code,         *)
(*                     has_city, city]]),                                  *)
(*    groups : Seq(identifier), technologies : Seq([identifier,            *)
(*    metadata : Seq([name, value])]), version : <<major, minor>>]         *)
(* load.present = FALSE: no 'load' key; load.valid = FALSE: a value int()  *)
(* does not accept, such as the string "n/a".                              *)
(***************************************************************************)
\* dict.get('load', 0) followed by int(): "ValueError" when int() raises
load_of(server_data) ==
    IF ~server_data.load.present THEN [raises |-> FALSE, value |-> 0]
    ELSE IF ~server_data.load.valid THEN [raises |-> TRUE, value |-> 0]
    ELSE [raises |-> FALSE, value |-> server_data.load.value]

\* the generator expression over technologies and their metadata, in list
\* order: the sequence of values next() can return (empty: StopIteration)
RECURSIVE public_keys_of(_)
public_keys_of(technologies) ==
    IF technologies = <<>> THEN <<>>
    ELSE LET t == Head(technologies)
             here == IF t.identifier = "wireguard_udp"
                     THEN SelectSeq(t.metadata, LAMBDA m : m.name = "public_key")
                     ELSE <<>>
         IN  [i \in 1..Len(here) |-> here[i].value] \o public_keys_of(Tail(technologies))

Abs(x) == IF x < 0 THEN -x ELSE x

\* _calculate_distance: the great-circle distance is replaced by a grid
\* distance on integer coordinates; the pipeline only orders distances
calculate_distance(lat1, lon1, lat2, lon2) == Abs(lat2 - lat1) + Abs(lon2 - lon1)

\* type_mapping.get(selected_type, selected_type)
type_mapping(selected_type) ==
    IF selected_type = ALIAS_STANDARD THEN LEGACY_STANDARD
    ELSE IF selected_type = ALIAS_P2P THEN LEGACY_P2P
    ELSE IF selected_type = ALIAS_DEDICATED_IP THEN LEGACY_DEDICATED_IP
    ELSE selected_type

\* lines 474-492: the inline type filter rejects the record
type_filter_rejects(group_identifiers, server_types) ==
    /\ ~server_types.none
    /\ ~\E i \in 1..Len(server_types.items) :
            type_mapping(server_types.items[i]) \in group_identifiers

\* lines 495-499: the inline region filter rejects the record
region_filter_rejects(group_identifiers, regions) ==
    /\ Truthy(regions)
    /\ ~\E i \in 1..Len(regions.items) : regions.items[i] \in group_identifiers

\* lines 509-512
country_filter_rejects(country_name, countries) ==
    Truthy(countries) /\ country_name \notin Range(countries.items)

\* lines 514-518
city_filter_rejects(city_name, cities) ==
    Truthy(cities) /\ city_name \notin Range(cities.items)

\* country_info.get('city', {}).get('name', 'Unknown')
city_name_of(country_info) ==
    IF country_info.has_city THEN country_info.city ELSE STR_UNKNOWN

\* lines 537-544: region of the first group, in set iteration order, that
\* contains a region keyword
is_region_group(group_id) ==
    \E k \in 1..Len(region_keywords) : Contains(group_id, region_keywords[k])

format_region(group_id) ==
    LET words == Split(group_id, "_")
    IN  Join([i \in 1..Len(words) |-> StrCapitalize(words[i])], "_")

region_of(group_identifiers, order) ==
    LET hits == SelectSeq(SetIter(group_identifiers, order), is_region_group)
    IN  IF hits = <<>> THEN STR_UNKNOWN ELSE format_region(hits[1])

ParseNone  == [kind |-> "None"]
ParseRaise == [kind |-> "ValueError"]
ParseServer(s) == [kind |-> "Server", server |-> s]

\* ConfigurationOrchestrator._parse_server_data: a Server, None, or the
\* ValueError of int() that the except clause does not catch
parse_server_data(server_data, user_location, preferences, type_priority, order) ==
    LET group_identifiers == Range(server_data.groups)
        ld == load_of(server_data)
    IN
    IF type_filter_rejects(group_identifiers, preferences.server_types) THEN ParseNone
    ELSE IF region_filter_rejects(group_identifiers, preferences.regions) THEN ParseNone
    ELSE IF ld.raises THEN ParseRaise
    ELSE IF ld.value > preferences.max_load THEN ParseNone
    ELSE IF server_data.locations = <<>> THEN ParseNone
    ELSE
    LET location == server_data.locations[1]
        country_info == location.country
        city_name == city_name_of(country_info)
        keys == public_keys_of(server_data.technologies)
    IN
    IF country_filter_rejects(country_info.name, preferences.countries) THEN ParseNone
    ELSE IF city_filter_rejects(city_name, preferences.cities) THEN ParseNone
    ELSE IF keys = <<>> THEN ParseNone
    ELSE ParseServer(
        [name |-> server_data.name, hostname |-> server_data.hostname,
         station |-> server_data.station, load |-> ld.value,
         country |-> country_info.name,
         country_code |-> StrLower(country_info.code),
         city |-> city_name,
         region |-> region_of(group_identifiers, order),
         server_type |-> determine_server_type(group_identifiers, type_priority,
                                               preferences.server_types, order),
         latitude |-> location.latitude, longitude |-> location.longitude,
         public_key |-> keys[1],
         distance |-> calculate_distance(user_location[1], user_location[2],
                                         location.latitude, location.longitude)])

\* the pre-pass comparing the selected types as they are written
filter_servers_by_types_unmapped(servers_data, selected_types) ==
    IF selected_types.none THEN servers_data
    ELSE SelectSeq(servers_data, LAMBDA server :
            \E i \in 1..Len(selected_types.items) :
                selected_types.items[i] \in Range(server.groups))

\* Application._filter_servers_by_types
filter_servers_by_types(servers_data, selected_types) ==
    IF selected_types.none THEN servers_data
    ELSE SelectSeq(servers_data, LAMBDA server :
            \E i \in 1..Len(selected_types.items) :
                type_mapping(selected_types.items[i]) \in Range(server.groups))

(***************************************************************************)
(* NordVpnApiClient.build_metadata: the type priority                      *)
(***************************************************************************)
\* every group identifier of every record, in list order
RECURSIVE all_group_entries(_)
all_group_entries(servers) ==
    IF servers = <<>> THEN <<>>
    ELSE Head(servers).groups \o all_group_entries(Tail(servers))

\* keys of a dict filled from seq, in insertion (first occurrence) order
RECURSIVE first_occurrences(_, _)
first_occurrences(seq, seen) ==
    IF seq = <<>> THEN <<>>
    ELSE IF Head(seq) \in seen THEN first_occurrences(Tail(seq), seen)
         ELSE <<Head(seq)>> \o first_occurrences(Tail(seq), seen \cup {Head(seq)})

\* type_counts[t]
type_count(servers, t) ==
    Len(SelectSeq(all_group_entries(servers), LAMBDA g : g = t))

\* tuple comparison of two-component sort keys
KeyLess(a, b) == a[1] < b[1] \/ (a[1] = b[1] /\ a[2] < b[2])

\* sorted(seq, key=...): stable; key is a function from the elements to
\* two-component keys.  x is inserted behind every element whose key is
\* not greater than its own
RECURSIVE insert_by_key(_, _, _)
insert_by_key(sorted, x, key) ==
    IF sorted = <<>> THEN <<x>>
    ELSE IF KeyLess(key[x], key[Head(sorted)]) THEN <<x>> \o sorted
         ELSE <<Head(sorted)>> \o insert_by_key(Tail(sorted), x, key)

RECURSIVE sorted_by_key(_, _)
sorted_by_key(seq, key) ==
    IF seq = <<>> THEN <<>>
    ELSE insert_by_key(sorted_by_key(SubSeq(seq, 1, Len(seq) - 1), key), seq[Len(seq)], key)

\* build_type_priority with the types left in encounter order
build_type_priority_unsorted(servers) ==
    first_occurrences(SelectSeq(all_group_entries(servers),
                                LAMBDA g : StartsWith(g, LEGACY_PREFIX)), {})

\* build_metadata: type_priority, the rarest type first, legacy_standard last
build_type_priority(servers) ==
    LET legacy == SelectSeq(all_group_entries(servers),
                            LAMBDA g : StartsWith(g, LEGACY_PREFIX))
        keys == first_occurrences(legacy, {})
        rest == SelectSeq(keys, LAMBDA t : t # LEGACY_STANDARD)
        ranked == sorted_by_key(rest, [t \in Range(rest) |-> <<type_count(servers, t), 0>>])
    IN  IF LEGACY_STANDARD \in Range(keys) THEN Append(ranked, LEGACY_STANDARD)
        ELSE ranked

(***************************************************************************)
(* dict: insertion-ordered, a sequence of [key, value] entries             *)
(***************************************************************************)
DictHas(d, k) == \E i \in 1..Len(d) : d[i].key = k
DictGet(d, k) == d[CHOOSE i \in 1..Len(d) : d[i].key = k].value
\* d[k] = v: a present key keeps its position
DictSet(d, k, v) ==
    IF DictHas(d, k)
    THEN [i \in 1..Len(d) |-> IF d[i].key = k THEN [key |-> k, value |-> v] ELSE d[i]]
    ELSE Append(d, [key |-> k, value |-> v])
\* list(d.values())
DictValues(d) == [i \in 1..Len(d) |-> d[i].value]
\* d.setdefault(k, default)
DictGetOr(d, k, default) == IF DictHas(d, k) THEN DictGet(d, k) ELSE default

(***************************************************************************)
(* ConfigurationOrchestrator.generate: deduplication and ranking           *)
(***************************************************************************)
\* generator.py line 47, {s.name: s for s in processed}: a name keeps the
\* position of its first Server and the value of its last
RECURSIVE unique_by_name_last(_)
unique_by_name_last(servers) ==
    IF servers = <<>> THEN <<>>
    ELSE LET d == unique_by_name_last(SubSeq(servers, 1, Len(servers) - 1))
             s == servers[Len(servers)]
         IN  DictSet(d, s.name, s)

\* lines 286-290: unique_servers, the first Server of each name
RECURSIVE unique_by_name(_)
unique_by_name(servers) ==
    IF servers = <<>> THEN <<>>
    ELSE LET d == unique_by_name(SubSeq(servers, 1, Len(servers) - 1))
             s == servers[Len(servers)]
         IN  IF DictHas(d, s.name) THEN d ELSE DictSet(d, s.name, s)

\* the deduplication with the last Server of a name kept
deduplicate_last(servers) == DictValues(unique_by_name_last(servers))

\* lines 286-290
deduplicate(servers) == DictValues(unique_by_name(servers))

\* line 292: sorted(processed_servers, key=lambda s: (s.load, s.distance))
\* the sort with the load as its only key
sort_servers_by_load(servers) ==
    sorted_by_key(servers, [s \in Range(servers) |-> <<s.load, 0>>])

\* line 292: sorted(processed_servers, key=lambda s: (s.load, s.distance))
sort_servers(servers) ==
    sorted_by_key(servers, [s \in Range(servers) |-> <<s.load, s.distance>>])

\* lines 322-324: the key of _get_best_servers and the update of one Server
best_key(server) == <<server.country, server.city, server.server_type>>

\* the update that also replaces the entry on an equal load
best_update_on_equal(best, server) ==
    LET key == best_key(server)
    IN  IF ~DictHas(best, key) \/ server.load <= DictGet(best, key).load
        THEN DictSet(best, key, server)
        ELSE best

\* lines 321-324: one iteration of the loop of _get_best_servers
best_update(best, server) ==
    LET key == best_key(server)
    IN  IF ~DictHas(best, key) \/ server.load < DictGet(best, key).load
        THEN DictSet(best, key, server)
        ELSE best

\* ConfigurationOrchestrator._get_best_servers
RECURSIVE get_best_servers(_)
get_best_servers(sorted_servers) ==
    IF sorted_servers = <<>> THEN <<>>
    ELSE best_update(get_best_servers(SubSeq(sorted_servers, 1, Len(sorted_servers) - 1)),
                     sorted_servers[Len(sorted_servers)])

\* the entry of one Server with its pair put in front of the leaf's list
servers_info_add_front(info, server) ==
    LET type_info    == DictGetOr(info, server.server_type, <<>>)
        region_info  == DictGetOr(type_info, server.region, <<>>)
        country_info == DictGetOr(region_info, server.country, <<>>)
        city_info    == DictGetOr(country_info, server.city,
                                  [distance |-> server.distance, servers |-> <<>>])
        city_new     == [city_info EXCEPT !.servers = <<<<server.name, server.load>>>> \o @]
    IN  DictSet(info, server.server_type,
          DictSet(type_info, server.region,
            DictSet(region_info, server.country,
              DictSet(country_info, server.city, city_new))))

\* lines 331-335: one Server entered into the Type -> Region -> Country -> City mapping
servers_info_add(info, server) ==
    LET type_info    == DictGetOr(info, server.server_type, <<>>)
        region_info  == DictGetOr(type_info, server.region, <<>>)
        country_info == DictGetOr(region_info, server.country, <<>>)
        city_info    == DictGetOr(country_info, server.city,
                                  [distance |-> server.distance, servers |-> <<>>])
        city_new     == [city_info EXCEPT !.servers = Append(@, <<server.name, server.load>>)]
    IN  DictSet(info, server.server_type,
          DictSet(type_info, server.region,
            DictSet(region_info, server.country,
              DictSet(country_info, server.city, city_new))))

\* ConfigurationOrchestrator._build_servers_info
RECURSIVE build_servers_info(_)
build_servers_info(sorted_servers) ==
    IF sorted_servers = <<>> THEN <<>>
    ELSE servers_info_add(
            build_servers_info(SubSeq(sorted_servers, 1, Len(sorted_servers) - 1)),
            sorted_servers[Len(sorted_servers)])

(***************************************************************************)
(* Output naming                                                           *)
(***************************************************************************)
\* fallback[:15] and base[:15]
StemLimit == 15

\* ConfigurationOrchestrator._sanitize_path_part
sanitize_path_part(part) ==
    RemoveChars(RemoveChars(ReplaceChar(StrLower(part), " ", "_"), {"#"}),
                PATH_SANITIZER_CHARS)

\* lines 400-408: the run of digits that ends at the last digit of the name
name_digits(s) ==
    IF ~\E i \in 1..Len(s) : IsDigit(s[i]) THEN <<>>
    ELSE LET i == CHOOSE j \in 1..Len(s) :
                      IsDigit(s[j]) /\ \A k \in (j + 1)..Len(s) : ~IsDigit(s[k])
             start == CHOOSE j \in 0..(i - 1) :
                      /\ \A k \in (j + 1)..i : IsDigit(s[k])
                      /\ (j = 0 \/ ~IsDigit(s[j]))
         IN  SubSeq(s, start + 1, i)

\* ConfigurationOrchestrator._extract_base_filename
extract_base_filename(server) ==
    LET num == name_digits(server.name)
        type_clean == ReplaceChar(server.server_type, " ", "_")
        stem == IF num = <<>>
                THEN Prefix(STR_WG \o RemoveChars(server.station, {"."}), StemLimit)
                ELSE Prefix(server.country_code \o num, StemLimit)
    IN  stem \o <<"_">> \o type_clean \o STR_CONF

\* lines 375-382: the first idx, counting up, whose suffixed path is free
RECURSIVE free_index(_, _, _)
free_index(used_paths, base_path_no_ext, idx) ==
    IF (base_path_no_ext \o <<"_">> \o IntToStr(idx) \o STR_CONF) \notin DOMAIN used_paths
    THEN idx
    ELSE free_index(used_paths, base_path_no_ext, idx + 1)

\* used_paths[k] = v
PathsSet(used_paths, k, v) ==
    [p \in (DOMAIN used_paths) \cup {k} |-> IF p = k THEN v ELSE used_paths[p]]

\* lines 368-385, no registry lookup: every Server keeps its base filename
resolve_filename_unchecked(used_paths, rel_path, base_filename) ==
    [filename |-> base_filename, rel |-> rel_path,
     used_paths |-> PathsSet(used_paths, rel_path, 0)]

\* lines 368-385, the counter kept at idx
resolve_filename_from_zero(used_paths, rel_path, base_filename) ==
    IF rel_path \in DOMAIN used_paths
    THEN LET idx == free_index(used_paths, DropLast(rel_path, 5), used_paths[rel_path])
             new_rel == DropLast(rel_path, 5) \o <<"_">> \o IntToStr(idx) \o STR_CONF
         IN  [filename |-> DropLast(base_filename, 5) \o <<"_">> \o IntToStr(idx) \o STR_CONF,
              rel |-> new_rel,
              used_paths |-> PathsSet(PathsSet(used_paths, rel_path, idx + 1), new_rel, 0)]
    ELSE [filename |-> base_filename, rel |-> rel_path,
          used_paths |-> PathsSet(used_paths, rel_path, 0)]

\* lines 368-385: the filename of one Server and the registry after it
resolve_filename(used_paths, rel_path, base_filename) ==
    IF rel_path \in DOMAIN used_paths
    THEN LET first == IF used_paths[rel_path] = 0 THEN 1 ELSE used_paths[rel_path]
             idx == free_index(used_paths, DropLast(rel_path, 5), first)
             new_rel == DropLast(rel_path, 5) \o <<"_">> \o IntToStr(idx) \o STR_CONF
         IN  [filename |-> DropLast(base_filename, 5) \o <<"_">> \o IntToStr(idx) \o STR_CONF,
              rel |-> new_rel,
              used_paths |-> PathsSet(PathsSet(used_paths, rel_path, idx + 1), new_rel, 0)]
    ELSE [filename |-> base_filename, rel |-> rel_path,
          used_paths |-> PathsSet(used_paths, rel_path, 0)]

\* lines 359-388: one iteration of _create_batch_save_tasks.  The task is
\* the pending _save_config_file call: its directory below the output
\* directory and its filename
create_save_task(server, subfolder, used_paths) ==
    LET type_clean    == sanitize_path_part(server.server_type)
        region_clean  == sanitize_path_part(server.region)
        country_clean == sanitize_path_part(server.country)
        city_clean    == sanitize_path_part(server.city)
        dir_path      == <<subfolder, type_clean, region_clean, country_clean, city_clean>>
        base_filename == extract_base_filename(server)
        rel_path      == Join(Append(dir_path, base_filename), "/")
        r             == resolve_filename(used_paths, rel_path, base_filename)
    IN  [task |-> [subfolder |-> subfolder, dir_path |-> dir_path,
                   filename |-> r.filename, rel |-> r.rel, rel_path |-> rel_path,
                   base_filename |-> base_filename, server |-> server],
         used_paths |-> r.used_paths]

\* ConfigurationOrchestrator._create_batch_save_tasks over a whole list
RECURSIVE create_batch_save_tasks(_, _, _)
create_batch_save_tasks(servers, subfolder, used_paths) ==
    IF servers = <<>> THEN [tasks |-> <<>>, used_paths |-> used_paths]
    ELSE LET before == create_batch_save_tasks(SubSeq(servers, 1, Len(servers) - 1),
                                               subfolder, used_paths)
             r == create_save_task(servers[Len(servers)], subfolder, before.used_paths)
         IN  [tasks |-> Append(before.tasks, r.task), used_paths |-> r.used_paths]

(***************************************************************************)
(* Inputs: the records the server-list API may return                      *)
(***************************************************************************)
\* longest server list drawn
MaxServers == 3

FRANCE == <<"F","r","a","n","c","e">>
PARIS  == <<"P","a","r","i","s">>
UNITED_STATES == <<"U","n","i","t","e","d"," ","S","t","a","t","e","s">>
NEW_YORK == <<"N","e","w"," ","Y","o","r","k">>

LocParis == [latitude |-> 2, longitude |-> 1,
             country |-> [name |-> FRANCE, code |-> <<"F","R">>,
                          has_city |-> TRUE, city |-> PARIS]]
LocNewYork == [latitude |-> 3, longitude |-> 4,
               country |-> [name |-> UNITED_STATES, code |-> <<"U","S">>,
                            has_city |-> TRUE, city |-> NEW_YORK]]
\* a location whose country carries no city
LocNoCity == [latitude |-> 3, longitude |-> 4,
              country |-> [name |-> UNITED_STATES, code |-> <<"U","S">>,
                           has_city |-> FALSE, city |-> <<>>]]

TechWireGuard(key) ==
    << [identifier |-> "openvpn_udp", metadata |-> <<>>],
       [identifier |-> "wireguard_udp",
        metadata |-> << [name |-> "port", value |-> "51820"],
                        [name |-> "public_key", value |-> key] >>] >>
\* no wireguard_udp technology
TechNoWireGuard == << [identifier |-> "openvpn_udp", metadata |-> <<>>] >>
\* a wireguard_udp technology without a public_key item
TechNoPublicKey ==
    << [identifier |-> "wireguard_udp",
        metadata |-> << [name |-> "port", value |-> "51820"] >>] >>

LoadInt(n)  == [present |-> TRUE, valid |-> TRUE, value |-> n]
LoadMissing == [present |-> FALSE, valid |-> TRUE, value |-> 0]
LoadInvalid == [present |-> TRUE, valid |-> FALSE, value |-> 0]

RawRecord(name, host, station, load, locations, groups, technologies) ==
    [name |-> name, hostname |-> host, station |-> station, load |-> load,
     locations |-> locations, groups |-> groups, technologies |-> technologies,
     version |-> <<2, 1>>]

STATION_1 == <<"1","0",".","0",".","0",".","1">>

\* the records of the ranking pipeline's inputs
ServerPool == <<
    \* 1: a standard server in Paris
    RawRecord(<<"f","r","1">>, "h1", STATION_1, LoadInt(10), <<LocParis>>,
              <<LEGACY_STANDARD, EUROPE>>, TechWireGuard("K1")),
    \* 2: the same name again, two legacy types, the load of record 6 at a
    \* shorter distance
    RawRecord(<<"f","r","1">>, "h2", STATION_1, LoadInt(0), <<LocParis>>,
              <<LEGACY_STANDARD, LEGACY_P2P, EUROPE>>, TechWireGuard("K2")),
    \* 3: Paris and standard as record 1, in another region group
    RawRecord(<<"f","a","3">>, "h3", STATION_1, LoadInt(10), <<LocParis>>,
              <<LEGACY_STANDARD, ASIA_PACIFIC>>, TechWireGuard("K3")),
    \* 4: another name with the digits, type and place of record 1
    RawRecord(<<"f","x","1">>, "h4", STATION_1, LoadInt(20), <<LocParis>>,
              <<LEGACY_STANDARD, EUROPE>>, TechWireGuard("K4")),
    \* 5: as record 4, with the load and distance of record 1
    RawRecord(<<"f","y","1">>, "h5", STATION_1, LoadInt(10), <<LocParis>>,
              <<LEGACY_STANDARD, EUROPE>>, TechWireGuard("K5")),
    \* 6: two region groups, two legacy types, no load, no digit in the name
    RawRecord(<<"u","s","n","y">>, "h6", STATION_1, LoadMissing, <<LocNewYork>>,
              <<LEGACY_P2P, LEGACY_STANDARD, EUROPE, ASIA_PACIFIC>>,
              TechWireGuard("K6")),
    \* 7: no WireGuard technology, no legacy type
    RawRecord(<<"d","e","9">>, "h7", STATION_1, LoadInt(1), <<LocParis>>,
              <<EUROPE>>, TechNoWireGuard),
    \* 8: a load int() rejects
    RawRecord(<<"f","r","8">>, "h8", STATION_1, LoadInvalid, <<LocParis>>,
              <<LEGACY_STANDARD, EUROPE>>, TechWireGuard("K8")) >>

\* server lists: up to MaxServers different records of the pool, in any order
IndexLists ==
    {f \in UNION {[1..n -> 1..Len(ServerPool)] : n \in 1..MaxServers} :
        \A i, j \in DOMAIN f : i # j => f[i] # f[j]}
ServerLists == {[i \in DOMAIN f |-> ServerPool[f[i]]] : f \in IndexLists}

\* all orders of the elements of a set
RECURSIVE Perms(_)
Perms(S) ==
    IF S = {} THEN {<<>>}
    ELSE UNION {{<<x>> \o p : p \in Perms(S \ {x})} : x \in S}

\* iteration orders of the group identifier sets.  A set holds legacy types
\* and region groups; the code reads the first legacy type or the first
\* region group, so the order among the types and the order among the
\* region groups are all an order has to fix
HashOrders ==
    {t \o r : t \in Perms({LEGACY_STANDARD, LEGACY_P2P}),
              r \in Perms({EUROPE, ASIA_PACIFIC})}

Preferences(server_types, regions, countries, cities, max_load) ==
    [server_types |-> server_types, regions |-> regions, countries |-> countries,
     cities |-> cities, max_load |-> max_load]

\* _build_final_preferences sets max_load=100
NoFilter == Preferences(NoneList, NoneList, NoneList, NoneList, 100)
PipelinePreferences ==
    {NoFilter, Preferences(ListOf(<<LEGACY_P2P>>), NoneList, NoneList, NoneList, 100)}

(***************************************************************************)
(* State                                                                   *)
(***************************************************************************)
VARIABLES
    pc,               \* position of the run
    api_servers,      \* what the server-list API returns
    hash_order,       \* set iteration order of the process
    preferences,      \* UserPreferences of the run
    type_priority,    \* ConfigurationOrchestrator._type_priority
    user_location,    \* result of get_user_geolocation (NoLocation or <<lat, lon>>)
    all_servers_data, \* result of get_all_servers
    parse_results,    \* the futures of _process_server_data, by list position
    processed_servers,\* result of _process_server_data
    sorted_servers,   \* the ranked list
    best_servers,     \* best_servers_by_location
    servers_info,     \* result of _build_servers_info
    used_paths,       \* the registry of _save_all_configurations
    save_tasks,       \* the pending _save_config_file calls
    files,            \* files below the output directory
    out_dir_made,     \* the output directory exists
    result,           \* what generate / process returned
    filtered_servers, \* result of _filter_servers_by_types
    run_out,          \* servers.json and file paths of two runs on one input
    final_list,       \* Generator.process: the ranked list
    best_map,         \* Generator.process: best server per (country, city)
    gen_tasks,        \* Generator._write_batch: the files of both batches
    report,           \* root script: what main() logs when generate_configs is back
    write_state,      \* _save_config_file: the phase of each save task
    sem_value,        \* free permits of each asyncio.Semaphore
    in_flight,        \* write tasks of each batch counted by phase
    connection_prefs, \* what get_server_type_selection returned
    final_preferences \* result of _build_final_preferences

vars == <<pc, api_servers, hash_order, preferences, type_priority, user_location,
          all_servers_data, parse_results, processed_servers, sorted_servers,
          best_servers, servers_info, used_paths, save_tasks, files,
          out_dir_made, result, filtered_servers, run_out, final_list, best_map,
          gen_tasks,
          report, write_state, sem_value, in_flight,
          connection_prefs, final_preferences>>

inputs  == <<api_servers, hash_order, preferences, type_priority>>
fetched == <<user_location, all_servers_data>>
ranking == <<sorted_servers, best_servers, servers_info>>
writing == <<used_paths, save_tasks, files, out_dir_made>>
\* state of the other entry points
prepass  == <<filtered_servers>>
two_runs == <<run_out>>
gen_vars == <<final_list, best_map, gen_tasks>>
root_vars == <<report>>
io == <<write_state, sem_value, in_flight>>
cli == <<connection_prefs, final_preferences>>
\* no prompt answered, no preferences built
NoPrompt == [dns |-> <<>>, keepalive |-> <<>>]
NoPreferences == [kind |-> "pending"]

USER_LOCATION == <<1, 1>>
\* get_user_geolocation returning None: no coordinates
NoLocation == <<>>

\* _process_server_data: the parse results of a raw list, in list order
ParsedList(servers_data, user_preferences, priority, order) ==
    [i \in 1..Len(servers_data) |->
        parse_server_data(servers_data[i], USER_LOCATION, user_preferences, priority, order)]

\* the state of a run before generate() is called
RunStart ==
    /\ pc = "fetch"
    /\ user_location = NoLocation
    /\ all_servers_data = <<>>
    /\ parse_results = <<>>
    /\ processed_servers = <<>>
    /\ sorted_servers = <<>>
    /\ best_servers = <<>>
    /\ servers_info = <<>>
    /\ used_paths = <<>>
    /\ save_tasks = <<>>
    /\ files = {}
    /\ out_dir_made = FALSE
    /\ result = "running"
    /\ filtered_servers = <<>>
    /\ run_out = <<>>
    /\ final_list = <<>>
    /\ best_map = <<>>
    /\ gen_tasks = <<>>
    /\ report = "none"
    /\ connection_prefs = NoPrompt
    /\ final_preferences = NoPreferences
    /\ write_state = <<>>
    /\ sem_value = <<>>
    /\ in_flight = <<>>

\* _run_generate_command, lines 606-653: the priority is built from the
\* list fetched for the menus; generate() fetches the list again, and a
\* server may have come online in between
PrioritySources(servers) ==
    {servers} \cup (IF Len(servers) > 1 THEN {SubSeq(servers, 1, Len(servers) - 1)} ELSE {})

Init ==
    /\ api_servers \in ServerLists
    /\ hash_order \in HashOrders
    /\ preferences \in PipelinePreferences
    /\ type_priority \in {build_type_priority(m) : m \in PrioritySources(api_servers)}
    /\ RunStart

(***************************************************************************)
(* ConfigurationOrchestrator.generate                                      *)
(***************************************************************************)
\* the fetch step with the output directory made before the results are looked at
FetchRemoteDataDirFirst ==
    /\ pc = "fetch"
    /\ \E geo_ok, servers_ok \in BOOLEAN :
        /\ user_location' = IF geo_ok THEN USER_LOCATION ELSE NoLocation
        /\ all_servers_data' = IF servers_ok THEN api_servers ELSE <<>>
        /\ IF geo_ok /\ servers_ok
           THEN /\ pc' = "parse"
                /\ parse_results' = [i \in 1..Len(api_servers) |-> [kind |-> "pending"]]
                /\ result' = result
           ELSE /\ pc' = "done"
                /\ parse_results' = parse_results
                /\ result' = "None"
    /\ out_dir_made' = TRUE
    /\ UNCHANGED <<inputs, processed_servers, ranking, used_paths, save_tasks, files,
                   prepass, two_runs, root_vars, cli, io, gen_vars>>

\* lines 280-282 with _fetch_remote_data: both fetches are awaited; a
\* failed fetch yields None or [] and generate returns None
FetchRemoteData ==
    /\ pc = "fetch"
    /\ \E geo_ok, servers_ok \in BOOLEAN :
        /\ user_location' = IF geo_ok THEN USER_LOCATION ELSE NoLocation
        /\ all_servers_data' = IF servers_ok THEN api_servers ELSE <<>>
        /\ IF geo_ok /\ servers_ok
           THEN /\ pc' = "parse"
                /\ parse_results' = [i \in 1..Len(api_servers) |-> [kind |-> "pending"]]
                /\ result' = result
           ELSE /\ pc' = "done"
                /\ parse_results' = parse_results
                /\ result' = "None"
    /\ UNCHANGED <<inputs, processed_servers, ranking, writing, prepass, two_runs, root_vars, cli, io,
                   gen_vars>>

\* lines 313-315: one executor task runs _parse_server_data on one record;
\* the tasks run on pool threads, in any order
ParseServerData(i) ==
    /\ pc = "parse"
    /\ parse_results[i].kind = "pending"
    /\ parse_results' = [parse_results EXCEPT ![i] =
            parse_server_data(all_servers_data[i], user_location, preferences,
                              type_priority, hash_order)]
    /\ UNCHANGED <<pc, inputs, fetched, processed_servers, ranking, writing, result,
                   prepass, two_runs, root_vars, cli, io, gen_vars>>

\* lines 316-317: gather returns the results in list order and keeps the
\* Servers; an exception of a task leaves generate through gather
GatherParsed ==
    /\ pc = "parse"
    /\ \A i \in DOMAIN parse_results : parse_results[i].kind # "pending"
    /\ IF \E i \in DOMAIN parse_results : parse_results[i].kind = "ValueError"
       THEN /\ pc' = "done"
            /\ result' = "ValueError"
            /\ processed_servers' = processed_servers
       ELSE /\ pc' = "dedup"
            /\ result' = result
            /\ processed_servers' =
                 LET kept == SelectSeq(parse_results, LAMBDA r : r.kind = "Server")
                 IN  [i \in 1..Len(kept) |-> kept[i].server]
    /\ UNCHANGED <<inputs, fetched, parse_results, ranking, writing, prepass, two_runs, root_vars, cli, io,
                   gen_vars>>

\* lines 286-292: deduplication by name, then the sort
RankServers ==
    /\ pc = "dedup"
    /\ sorted_servers' = sort_servers(deduplicate(processed_servers))
    /\ pc' = "best"
    /\ UNCHANGED <<inputs, fetched, parse_results, processed_servers, best_servers,
                   servers_info, writing, result, prepass, two_runs, root_vars, cli, io,
                   gen_vars>>

\* lines 293-296: best servers, the output directory, the servers.json mapping
SelectBestServers ==
    /\ pc = "best"
    /\ best_servers' = get_best_servers(sorted_servers)
    /\ out_dir_made' = TRUE
    /\ servers_info' = build_servers_info(sorted_servers)
    /\ pc' = "configs"
    /\ UNCHANGED <<inputs, fetched, parse_results, processed_servers, sorted_servers,
                   used_paths, save_tasks, files, result, prepass,
                   two_runs, root_vars, cli, io, gen_vars>>

\* the tasks of one batch created so far
BatchTasks(subfolder) == SelectSeq(save_tasks, LAMBDA t : t.subfolder = subfolder)

\* line 349: one iteration of _create_batch_save_tasks over sorted_servers
CreateConfigsTask ==
    /\ pc = "configs"
    /\ LET n == Len(BatchTasks(STR_CONFIGS))
       IN  IF n < Len(sorted_servers)
           THEN LET r == create_save_task(sorted_servers[n + 1], STR_CONFIGS, used_paths)
                IN  /\ save_tasks' = Append(save_tasks, r.task)
                    /\ used_paths' = r.used_paths
                    /\ pc' = pc
           ELSE /\ pc' = "best_configs"
                /\ UNCHANGED <<save_tasks, used_paths>>
    /\ UNCHANGED <<inputs, fetched, parse_results, processed_servers, ranking,
                   files, out_dir_made, result, prepass, two_runs, root_vars, cli, io, gen_vars>>

\* line 350: one iteration of _create_batch_save_tasks over list(best_servers.values())
CreateBestConfigsTask ==
    /\ pc = "best_configs"
    /\ LET n == Len(BatchTasks(STR_BEST_CONFIGS))
           best_list == DictValues(best_servers)
       IN  IF n < Len(best_list)
           THEN LET r == create_save_task(best_list[n + 1], STR_BEST_CONFIGS, used_paths)
                IN  /\ save_tasks' = Append(save_tasks, r.task)
                    /\ used_paths' = r.used_paths
                    /\ pc' = pc
           ELSE /\ pc' = "write"
                /\ UNCHANGED <<save_tasks, used_paths>>
    /\ UNCHANGED <<inputs, fetched, parse_results, processed_servers, ranking,
                   files, out_dir_made, result, prepass, two_runs, root_vars, cli, io, gen_vars>>

\* the file a task writes: its directory below the output directory and its name
TaskFile(t) == Append(t.dir_path, t.filename)

\* line 352: gather(*save_tasks), every config file written
SaveConfigFiles ==
    /\ pc = "write"
    /\ files' = files \cup {TaskFile(save_tasks[i]) : i \in 1..Len(save_tasks)}
    /\ pc' = "json"
    /\ UNCHANGED <<inputs, fetched, parse_results, processed_servers, ranking,
                   used_paths, save_tasks, out_dir_made, result,
                   prepass, two_runs, root_vars, cli, io, gen_vars>>

\* lines 353-354 and 299: servers.json written, generate returns the directory
WriteServersJson ==
    /\ pc = "json"
    /\ files' = files \cup {<<"servers.json">>}
    /\ result' = "output_dir"
    /\ pc' = "done"
    /\ UNCHANGED <<inputs, fetched, parse_results, processed_servers, ranking,
                   used_paths, save_tasks, out_dir_made, prepass,
                   two_runs, root_vars, cli, io, gen_vars>>

Next ==
    \/ FetchRemoteData
    \/ \E i \in DOMAIN parse_results : ParseServerData(i)
    \/ GatherParsed
    \/ RankServers
    \/ SelectBestServers
    \/ CreateConfigsTask
    \/ CreateBestConfigsTask
    \/ SaveConfigFiles
    \/ WriteServersJson

Spec == Init /\ [][Next]_vars

(***************************************************************************)
(* Properties of the ConfigurationOrchestrator run                         *)
(***************************************************************************)
\* the ranked list and the best servers are computed
Ranked == pc \in {"configs", "best_configs", "write", "json"}
          \/ (pc = "done" /\ result = "output_dir")

SameCombination(s, t) ==
    /\ s.server_type = t.server_type
    /\ s.region = t.region
    /\ s.country = t.country
    /\ s.city = t.city

\* C1: for every (serverType, region, country, city) combination of the
\* ranked list, _get_best_servers selects exactly one Server of the
\* combination, and no Server of the combination has a lower load
C1_OneBestPerCombination ==
    Ranked =>
        \A s \in Range(sorted_servers) :
            LET selected == {i \in 1..Len(best_servers) :
                                SameCombination(best_servers[i].value, s)}
            IN  /\ Cardinality(selected) = 1
                /\ \A i \in selected : \A t \in Range(sorted_servers) :
                       SameCombination(t, s) => best_servers[i].value.load <= t.load

\* C2: the config writes of one run have pairwise different relative paths
\* and files, and every assigned path is in the used_paths registry
C2_UniquePaths ==
    /\ \A i, j \in 1..Len(save_tasks) :
          i # j => /\ save_tasks[i].rel # save_tasks[j].rel
                   /\ TaskFile(save_tasks[i]) # TaskFile(save_tasks[j])
    /\ \A i \in 1..Len(save_tasks) :
          /\ save_tasks[i].rel \in DOMAIN used_paths
          /\ save_tasks[i].rel = Join(TaskFile(save_tasks[i]), "/")

\* two Servers of the run asked for the same relative path, all files written
C2_Witness ==
    /\ pc = "done" /\ result = "output_dir"
    /\ \E i, j \in 1..Len(save_tasks) :
          i # j /\ save_tasks[i].rel_path = save_tasks[j].rel_path

\* the number of tasks before position i that computed the relative path of task i
EarlierSamePath(i) ==
    Cardinality({j \in 1..(i - 1) : save_tasks[j].rel_path = save_tasks[i].rel_path})

Suffixed(base_filename, k) ==
    DropLast(base_filename, 5) \o <<"_">> \o IntToStr(k) \o STR_CONF

\* C3: of the Servers that compute the same relative path, the first in
\* processing order keeps the base filename and the k-th after it gets the
\* suffix _k
C3_SuffixInOrder ==
    \A i \in 1..Len(save_tasks) :
        LET k == EarlierSamePath(i)
        IN  save_tasks[i].filename =
                IF k = 0 THEN save_tasks[i].base_filename
                ELSE Suffixed(save_tasks[i].base_filename, k)

\* three Servers computed the same relative path
C3_Witness ==
    \E i \in 1..Len(save_tasks) :
        /\ EarlierSamePath(i) = 2
        /\ save_tasks[i].filename = Suffixed(save_tasks[i].base_filename, 2)

\* positions of the Servers called name in a list
NamedAt(servers, name) == {i \in 1..Len(servers) : servers[i].name = name}

\* C4: the ranked list holds, for every name among the parsed Servers,
\* exactly one Server, the first one of that name in raw-list order
C4_FirstOccurrenceWins ==
    Ranked =>
        \A i \in 1..Len(processed_servers) :
            LET name == processed_servers[i].name
                first == CHOOSE k \in NamedAt(processed_servers, name) :
                            \A m \in NamedAt(processed_servers, name) : k <= m
            IN  /\ Cardinality(NamedAt(sorted_servers, name)) = 1
                /\ \A k \in NamedAt(sorted_servers, name) :
                       sorted_servers[k] = processed_servers[first]

\* two different Servers of one name were parsed and the list is ranked
C4_Witness ==
    /\ Ranked
    /\ \E i, j \in 1..Len(processed_servers) :
          /\ i < j
          /\ processed_servers[i].name = processed_servers[j].name
          /\ processed_servers[i] # processed_servers[j]

\* C11: when the geolocation fetch yields no location or the server-list
\* fetch yields no servers, generate returns None, and no output directory
\* has been made and no file written
C11_FailedFetchWritesNothing ==
    (pc # "fetch" /\ (user_location = NoLocation \/ all_servers_data = <<>>)) =>
        /\ pc = "done"
        /\ result = "None"
        /\ ~out_dir_made
        /\ files = {}

\* generate has returned after a fetch without location although servers came
C11_Witness ==
    /\ pc = "done"
    /\ result = "None"
    /\ user_location = NoLocation
    /\ all_servers_data # <<>>

SortKey(s) == <<s.load, s.distance>>

\* the position in the raw list of the record a ranked Server was parsed from
RawPosition(s) ==
    CHOOSE k \in 1..Len(api_servers) :
        /\ parse_results[k] = ParseServer(s)
        /\ \A m \in 1..(k - 1) : parse_results[m] # ParseServer(s)

\* C15: the ranked list ascends in (load, distance), Servers equal on both
\* keep their raw-list order, and the list is what the raw list alone
\* gives, whatever order the parse tasks completed in
C15_RankedOrder ==
    Ranked =>
        /\ \A i, j \in 1..Len(sorted_servers) :
              i < j =>
                 /\ ~KeyLess(SortKey(sorted_servers[j]), SortKey(sorted_servers[i]))
                 /\ SortKey(sorted_servers[i]) = SortKey(sorted_servers[j])
                       => RawPosition(sorted_servers[i]) < RawPosition(sorted_servers[j])
        /\ LET results == ParsedList(api_servers, preferences, type_priority, hash_order)
               kept == SelectSeq(results, LAMBDA r : r.kind = "Server")
           IN  /\ parse_results = results
               /\ Range(sorted_servers) \subseteq {kept[i].server : i \in 1..Len(kept)}

\* a ranked list with two Servers equal on load and distance, and a Server
\* ranked before one that precedes it in the raw list
C15_Witness ==
    /\ Ranked
    /\ \E i, j \in 1..Len(sorted_servers) :
          i < j /\ SortKey(sorted_servers[i]) = SortKey(sorted_servers[j])
    /\ \E i, j \in 1..Len(sorted_servers) :
          /\ i < j
          /\ RawPosition(sorted_servers[j]) < RawPosition(sorted_servers[i])

\* the leaf of servers_info for the combination of Server s
HasLeaf(s) ==
    /\ DictHas(servers_info, s.server_type)
    /\ DictHas(DictGet(servers_info, s.server_type), s.region)
    /\ DictHas(DictGet(DictGet(servers_info, s.server_type), s.region), s.country)
    /\ DictHas(DictGet(DictGet(DictGet(servers_info, s.server_type), s.region), s.country),
               s.city)

Leaf(s) ==
    DictGet(DictGet(DictGet(DictGet(servers_info, s.server_type), s.region), s.country),
            s.city)

\* C16: every leaf of servers_info lists exactly the ranked Servers of its
\* (type, region, country, city) combination, each once, as (name, load)
\* pairs in ascending load order
C16_LeavesListRankedServers ==
    Ranked =>
        /\ \A s \in Range(sorted_servers) :
              /\ HasLeaf(s)
              /\ LET listed == Leaf(s).servers
                     members == {t \in Range(sorted_servers) : SameCombination(t, s)}
                 IN  /\ Len(listed) = Cardinality(members)
                     /\ \A t \in members :
                           Cardinality({a \in 1..Len(listed) :
                                           listed[a] = <<t.name, t.load>>}) = 1
                     /\ \A a, b \in 1..Len(listed) :
                           a < b => listed[a][2] <= listed[b][2]
        /\ \A t \in 1..Len(servers_info) :
           \A r \in 1..Len(servers_info[t].value) :
           \A c \in 1..Len(servers_info[t].value[r].value) :
           \A y \in 1..Len(servers_info[t].value[r].value[c].value) :
              \E s \in Range(sorted_servers) :
                 /\ s.server_type = servers_info[t].key
                 /\ s.region = servers_info[t].value[r].key
                 /\ s.country = servers_info[t].value[r].value[c].key
                 /\ s.city = servers_info[t].value[r].value[c].value[y].key

\* a leaf with two Servers of different loads
C16_Witness ==
    /\ Ranked
    /\ \E s, t \in Range(sorted_servers) :
          /\ SameCombination(s, t)
          /\ s.load < t.load
          /\ Len(Leaf(s).servers) >= 2

\* C25: in _get_best_servers over the ranked list an entry stored for a
\* group key is never replaced: the selected Server of each key is the first
\* Server of that key in the ranked list, hence minimal by (load, distance)
\* within its group and, among full ties, the earliest in raw-list order
C25_BestIsFirstOfKey ==
    Ranked =>
        /\ \A s \in Range(sorted_servers) : DictHas(best_servers, best_key(s))
        /\ \A i \in 1..Len(best_servers) :
              LET b == best_servers[i].value
                  members == {k \in 1..Len(sorted_servers) :
                                 best_key(sorted_servers[k]) = best_servers[i].key}
              IN  /\ members # {}
                  /\ b = sorted_servers[CHOOSE k \in members : \A m \in members : k <= m]
                  /\ \A m \in members :
                        /\ ~KeyLess(SortKey(sorted_servers[m]), SortKey(b))
                        /\ SortKey(sorted_servers[m]) = SortKey(b)
                              => RawPosition(b) <= RawPosition(sorted_servers[m])

\* two Servers of one key with the same load and distance, and a third
\* Server of the key with a higher load
C25_Witness ==
    /\ Ranked
    /\ \E i, j, k \in 1..Len(sorted_servers) :
          /\ i < j /\ j < k
          /\ best_key(sorted_servers[i]) = best_key(sorted_servers[j])
          /\ best_key(sorted_servers[j]) = best_key(sorted_servers[k])
          /\ SortKey(sorted_servers[i]) = SortKey(sorted_servers[j])
          /\ sorted_servers[j].load < sorted_servers[k].load

(***************************************************************************)
(* The filters on one record: Application._filter_servers_by_types, then   *)
(* ConfigurationOrchestrator._parse_server_data, on the same record and    *)
(* the same preferences                                                    *)
(***************************************************************************)
GERMANY == <<"G","e","r","m","a","n","y">>
BERLIN  == <<"B","e","r","l","i","n">>

\* the group lists of the records under test
RecordGroups ==
    { <<LEGACY_STANDARD, EUROPE>>,
      <<LEGACY_STANDARD, LEGACY_P2P, ASIA_PACIFIC, EUROPE>>,
      <<EUROPE>>,
      <<LEGACY_P2P>> }

RecordsUnderTest ==
    { RawRecord(<<"f","r","1">>, "h1", STATION_1, load, locations, groups, technologies) :
        load \in {LoadInt(60), LoadMissing, LoadInvalid},
        locations \in {<<LocParis>>, <<LocNoCity>>, <<>>},
        groups \in RecordGroups,
        technologies \in {TechWireGuard("K1"), TechNoWireGuard, TechNoPublicKey} }

PreferencesUnderTest ==
    { Preferences(server_types, regions, countries, cities, max_load) :
        server_types \in {NoneList, ListOf(<<>>), ListOf(<<ALIAS_P2P>>),
                          ListOf(<<LEGACY_DOUBLE_VPN, LEGACY_P2P>>)},
        regions \in {NoneList, ListOf(<<>>), ListOf(<<ASIA_PACIFIC, EUROPE>>)},
        countries \in {NoneList, ListOf(<<>>), ListOf(<<GERMANY, FRANCE>>)},
        cities \in {NoneList, ListOf(<<>>), ListOf(<<BERLIN, PARIS>>)},
        max_load \in {50, 100} }

InitParse ==
    /\ api_servers \in {<<r>> : r \in RecordsUnderTest}
    /\ hash_order \in HashOrders
    /\ preferences \in PreferencesUnderTest
    /\ type_priority = <<LEGACY_P2P, LEGACY_STANDARD>>
    /\ RunStart

\* _run_generate_command line 630: the pre-pass over the fetched list
FilterServersByTypes ==
    /\ pc = "fetch"
    /\ filtered_servers' = filter_servers_by_types(api_servers, preferences.server_types)
    /\ pc' = "parse_one"
    /\ UNCHANGED <<inputs, fetched, parse_results, processed_servers, ranking,
                   writing, result, two_runs, root_vars, cli, io, gen_vars>>

\* one call of _parse_server_data
ParseRecord ==
    /\ pc = "parse_one"
    /\ parse_results' = <<parse_server_data(api_servers[1], USER_LOCATION, preferences,
                                            type_priority, hash_order)>>
    /\ pc' = "parsed"
    /\ UNCHANGED <<inputs, fetched, processed_servers, ranking, writing, result,
                   prepass, two_runs, root_vars, cli, io, gen_vars>>

NextParse == FilterServersByTypes \/ ParseRecord

SpecParse == InitParse /\ [][NextParse]_vars

\* the record has a wireguard_udp technology with a public_key metadata item
HasWireGuardKey(record) ==
    \E i \in 1..Len(record.technologies) :
        /\ record.technologies[i].identifier = "wireguard_udp"
        /\ \E j \in 1..Len(record.technologies[i].metadata) :
               record.technologies[i].metadata[j].name = "public_key"

\* C6: a record without a wireguard_udp public key is rejected with None,
\* whatever its other fields and the filters are
C6_NoKeyRejected ==
    (pc = "parsed" /\ ~HasWireGuardKey(api_servers[1]))
        => parse_results[1].kind = "None"

\* the preference is None or an empty collection
AbsentOrEmpty(l) == l.none \/ l.items = <<>>

\* what _parse_server_data returns when the preferences filter nothing
UnfilteredResult ==
    parse_server_data(api_servers[1], USER_LOCATION,
                      Preferences(NoneList, NoneList, NoneList, NoneList,
                                  preferences.max_load),
                      type_priority, hash_order)

\* C7: with every dimension (serverTypes, regions, countries, cities)
\* absent or empty, the pre-pass keeps the record and the inline filters
\* reject nothing: the record is rejected only where it is rejected
\* without any preference
C7_EmptyDimensionAcceptsAll ==
    /\ (pc \in {"parse_one", "parsed"} /\ AbsentOrEmpty(preferences.server_types))
          => filtered_servers = api_servers
    /\ ( /\ pc = "parsed"
         /\ AbsentOrEmpty(preferences.server_types)
         /\ AbsentOrEmpty(preferences.regions)
         /\ AbsentOrEmpty(preferences.countries)
         /\ AbsentOrEmpty(preferences.cities) )
          => (parse_results[1].kind = "None" <=> UnfilteredResult.kind = "None")

\* the record matches one of the accepted values of a non-empty dimension
MatchesType(record, l) ==
    \E i \in 1..Len(l.items) :
        LET requested == l.items[i]
            identifier == IF requested = ALIAS_STANDARD THEN LEGACY_STANDARD
                          ELSE IF requested = ALIAS_P2P THEN LEGACY_P2P
                          ELSE IF requested = ALIAS_DEDICATED_IP THEN LEGACY_DEDICATED_IP
                          ELSE requested
        IN  identifier \in Range(record.groups)
MatchesRegion(record, l) ==
    \E i \in 1..Len(l.items) : l.items[i] \in Range(record.groups)
MatchesCountry(record, l) ==
    \E i \in 1..Len(l.items) : l.items[i] = record.locations[1].country.name
MatchesCity(record, l) ==
    \E i \in 1..Len(l.items) :
        l.items[i] = IF record.locations[1].country.has_city
                     THEN record.locations[1].country.city ELSE STR_UNKNOWN

\* C8: a record with a location and a WireGuard public key (and a load
\* that is an integer or missing, read as 0) yields a Server exactly when
\* its load is at most maxLoad and it matches an accepted value in every
\* dimension whose accepted set is not empty
C8_FiltersOrAnd ==
    LET record == api_servers[1]
        load == IF record.load.present THEN record.load.value ELSE 0
    IN  ( /\ pc = "parsed"
          /\ record.locations # <<>>
          /\ HasWireGuardKey(record)
          /\ record.load.valid )
        => ( parse_results[1].kind = "Server" <=>
               /\ load <= preferences.max_load
               /\ AbsentOrEmpty(preferences.server_types)
                     \/ MatchesType(record, preferences.server_types)
               /\ AbsentOrEmpty(preferences.regions)
                     \/ MatchesRegion(record, preferences.regions)
               /\ AbsentOrEmpty(preferences.countries)
                     \/ MatchesCountry(record, preferences.countries)
               /\ AbsentOrEmpty(preferences.cities)
                     \/ MatchesCity(record, preferences.cities) )

(***************************************************************************)
(* The type priority: build_metadata over the fetched population, then the *)
(* parse of every record of that population with the priority              *)
(***************************************************************************)
\* largest population drawn
MaxPopulation == 3

TypedRecord(groups) ==
    RawRecord(<<"f","r","1">>, "h1", STATION_1, LoadInt(10), <<LocParis>>,
              groups \o <<EUROPE>>, TechWireGuard("K1"))

TypeGroups ==
    { <<LEGACY_STANDARD>>, <<LEGACY_P2P>>, <<LEGACY_STANDARD, LEGACY_P2P>>,
      <<LEGACY_P2P, LEGACY_DOUBLE_VPN>>,
      <<LEGACY_STANDARD, LEGACY_P2P, LEGACY_DOUBLE_VPN>> }

Populations ==
    UNION {[1..n -> {TypedRecord(g) : g \in TypeGroups}] : n \in 1..MaxPopulation}

TypeHashOrders ==
    {t \o <<EUROPE>> : t \in Perms({LEGACY_STANDARD, LEGACY_P2P, LEGACY_DOUBLE_VPN})}

TypeSelections ==
    {NoneList, ListOf(<<LEGACY_STANDARD, LEGACY_P2P>>),
     ListOf(<<LEGACY_DOUBLE_VPN, LEGACY_P2P>>)}

InitTypes ==
    /\ api_servers \in Populations
    /\ hash_order \in TypeHashOrders
    /\ preferences \in {Preferences(t, NoneList, NoneList, NoneList, 100) :
                          t \in TypeSelections}
    /\ type_priority = <<>>
    /\ RunStart

\* _run_generate_command lines 606-653: the metadata of the fetched list
\* gives the orchestrator its priority; generate() then parses the list
BuildMetadata ==
    /\ pc = "fetch"
    /\ type_priority' = build_type_priority(api_servers)
    /\ all_servers_data' = api_servers
    /\ user_location' = USER_LOCATION
    /\ parse_results' = [i \in 1..Len(api_servers) |-> [kind |-> "pending"]]
    /\ pc' = "parse"
    /\ UNCHANGED <<api_servers, hash_order, preferences, processed_servers, ranking,
                   writing, result, prepass, two_runs, root_vars, cli, io, gen_vars>>

NextTypes ==
    \/ BuildMetadata
    \/ \E i \in DOMAIN parse_results : ParseServerData(i)

SpecTypes == InitTypes /\ [][NextTypes]_vars

\* the number of records of the population that carry the type
PopulationCount(t) ==
    Cardinality({i \in 1..Len(api_servers) : t \in Range(api_servers[i].groups)})

\* the legacy types of record i among which its label is chosen
Candidates(i) ==
    {g \in Range(api_servers[i].groups) :
        /\ StartsWith(g, LEGACY_PREFIX)
        /\ AbsentOrEmpty(preferences.server_types)
              \/ g \in Range(preferences.server_types.items)}

Labelled(i) ==
    /\ pc = "parse"
    /\ i \in DOMAIN parse_results
    /\ parse_results[i].kind = "Server"
    /\ Cardinality(Candidates(i)) >= 2

\* C9 as claimed: a record with several candidate types is labelled with
\* its candidate of the lowest population count, and with legacy_standard
\* only when that is its only candidate
C9_RarestCandidate ==
    \A i \in 1..Len(api_servers) :
        Labelled(i) =>
            /\ \E t \in Candidates(i) :
                  /\ parse_results[i].server.server_type = format_type_name(t)
                  /\ \A u \in Candidates(i) : PopulationCount(t) <= PopulationCount(u)
            /\ parse_results[i].server.server_type # format_type_name(LEGACY_STANDARD)

\* C9 as amended: the label is the candidate other than legacy_standard
\* with the lowest population count among the candidates other than
\* legacy_standard; legacy_standard is never the label of a record with
\* several candidates
C9_RarestNonStandardCandidate ==
    \A i \in 1..Len(api_servers) :
        Labelled(i) =>
            \E t \in Candidates(i) \ {LEGACY_STANDARD} :
                /\ parse_results[i].server.server_type = format_type_name(t)
                /\ \A u \in Candidates(i) \ {LEGACY_STANDARD} :
                       PopulationCount(t) <= PopulationCount(u)

\* a record with two candidates besides legacy_standard of different
\* counts is labelled, and legacy_standard is rarer than its label
C9_Witness ==
    \E i \in 1..Len(api_servers) :
        /\ Labelled(i)
        /\ \E t, u \in Candidates(i) \ {LEGACY_STANDARD} :
              PopulationCount(t) < PopulationCount(u)
        /\ LEGACY_STANDARD \in Candidates(i)
        /\ \E t \in Candidates(i) :
              /\ parse_results[i].server.server_type = format_type_name(t)
              /\ PopulationCount(LEGACY_STANDARD) < PopulationCount(t)

(***************************************************************************)
(* Two runs of generate over the same API responses.  Each run is its own  *)
(* interpreter process, with its own hash seed and so its own iteration    *)
(* order of the sets of group identifiers                                  *)
(***************************************************************************)
\* ConfigurationOrchestrator.generate as one step: what a run leaves in
\* servers.json and the files it writes below its output directory
generate_output(servers_data, user_preferences, priority, order) ==
    LET results == [i \in 1..Len(servers_data) |->
                      parse_server_data(servers_data[i], USER_LOCATION,
                                        user_preferences, priority, order)]
    IN  IF \E i \in 1..Len(results) : results[i].kind = "ValueError"
        THEN [result |-> "ValueError", servers_json |-> <<>>, paths |-> {}]
        ELSE LET kept == SelectSeq(results, LAMBDA r : r.kind = "Server")
                 processed == [i \in 1..Len(kept) |-> kept[i].server]
                 ranked == sort_servers(deduplicate(processed))
                 best == get_best_servers(ranked)
                 all_tasks == create_batch_save_tasks(ranked, STR_CONFIGS, <<>>)
                 best_tasks == create_batch_save_tasks(DictValues(best), STR_BEST_CONFIGS,
                                                       all_tasks.used_paths)
                 written == all_tasks.tasks \o best_tasks.tasks
             IN  [result |-> "output_dir",
                  servers_json |-> build_servers_info(ranked),
                  paths |-> {TaskFile(written[i]) : i \in 1..Len(written)}
                              \cup {<<"servers.json">>}]

\* one run of the command in a fresh process
RunGenerate ==
    /\ Len(run_out) < 2
    /\ \E order \in HashOrders :
          /\ hash_order' = order
          /\ run_out' = Append(run_out,
                               generate_output(api_servers, preferences, type_priority, order))
    /\ UNCHANGED <<pc, api_servers, preferences, type_priority, fetched, parse_results,
                   processed_servers, ranking, writing, result, prepass, gen_vars,
                   root_vars, cli, io>>

NextTwoRuns == RunGenerate

SpecTwoRuns == Init /\ [][NextTwoRuns]_vars

\* C10: two runs of generate over the same API responses, location and
\* preferences leave the same servers.json content and the same set of
\* file paths below their output directories
C10_RunsAgree ==
    Len(run_out) = 2 => run_out[1] = run_out[2]

(***************************************************************************)
(* generator.py: Generator.process                                         *)
(***************************************************************************)
\* client.get_geo on failure
GEO_FALLBACK == <<0, 0>>

\* Generator._check_version on the major and minor number of the version
check_version(v) == v[1] > 2 \/ (v[1] = 2 /\ v[2] >= 1)

\* _parse_one, the loops over technologies and metadata: every
\* wireguard_udp technology with a public_key item overwrites pk
gen_public_key(technologies) ==
    LET keys == public_keys_of(technologies)
    IN  IF keys = <<>> THEN "" ELSE keys[Len(keys)]

\* Generator._parse_one
gen_parse_one(data, lat, lon) ==
    IF data.locations = <<>> THEN ParseNone
    ELSE IF ~check_version(data.version) THEN ParseNone
    ELSE IF gen_public_key(data.technologies) = "" THEN ParseNone
    ELSE LET loc == data.locations[1]
         IN  IF load_of(data).raises \/ ~loc.country.has_city THEN ParseNone
             ELSE ParseServer(
                  [name |-> data.name,
                   hostname |-> data.hostname,
                   station |-> data.station,
                   load |-> load_of(data).value,
                   country |-> loc.country.name,
                   country_code |-> StrLower(loc.country.code),
                   city |-> loc.country.city,
                   latitude |-> loc.latitude,
                   longitude |-> loc.longitude,
                   public_key |-> gen_public_key(data.technologies),
                   distance |-> calculate_distance(lat, lon, loc.latitude, loc.longitude)])

\* Generator._parse_batch
RECURSIVE gen_parse_batch(_, _, _)
gen_parse_batch(raw, lat, lon) ==
    IF raw = <<>> THEN <<>>
    ELSE LET s == gen_parse_one(Head(raw), lat, lon)
             rest == gen_parse_batch(Tail(raw), lat, lon)
         IN  IF s.kind = "None" THEN rest ELSE <<s.server>> \o rest

\* process, lines 54-58
RECURSIVE gen_best_map(_)
gen_best_map(servers) ==
    IF servers = <<>> THEN <<>>
    ELSE LET best == gen_best_map(SubSeq(servers, 1, Len(servers) - 1))
             s == servers[Len(servers)]
             k == <<s.country, s.city>>
         IN  IF ~DictHas(best, k) \/ s.load < DictGet(best, k).load
             THEN DictSet(best, k, s)
             ELSE best

\* Generator._sanitize
gen_sanitize(part) == RemoveChars(ReplaceChar(StrLower(part), " ", "_"), PATH_SANITIZER_CHARS)

\* Generator._basename
gen_basename(s) ==
    LET num == name_digits(s.name)
    IN  IF num = <<>>
        THEN Prefix(STR_WG \o RemoveChars(s.station, {"."}), StemLimit) \o STR_CONF
        ELSE Prefix(s.country_code \o num, StemLimit) \o STR_CONF

\* the records the generator is run on: the pool, a record of an older
\* version and a record whose location has no city
GenPool ==
    ServerPool \o
    << [ServerPool[4] EXCEPT !.version = <<2, 0>>, !.name = <<"f","o","2">>],
       RawRecord(<<"f","n","4">>, "h10", STATION_1, LoadInt(3), <<LocNoCity>>,
                 <<LEGACY_STANDARD, EUROPE>>, TechWireGuard("K10")) >>

GenServerLists ==
    {[i \in DOMAIN f |-> GenPool[f[i]]] :
        f \in {g \in UNION {[1..n -> 1..Len(GenPool)] : n \in 1..MaxServers} :
                 \A i, j \in DOMAIN g : i # j => g[i] # g[j]}}

InitGen ==
    /\ api_servers \in GenServerLists
    /\ hash_order = <<>>
    /\ preferences = NoFilter
    /\ type_priority = <<>>
    /\ RunStart

\* process, lines 28-38: both fetches awaited; get_geo falls back to
\* (0.0, 0.0), an empty server list ends the run
GenFetch ==
    /\ pc = "fetch"
    /\ \E geo_ok, servers_ok \in BOOLEAN :
          /\ user_location' = IF geo_ok THEN USER_LOCATION ELSE GEO_FALLBACK
          /\ IF servers_ok
             THEN /\ all_servers_data' = api_servers
                  /\ pc' = "parse"
                  /\ result' = result
             ELSE /\ all_servers_data' = <<>>
                  /\ pc' = "done"
                  /\ result' = "None"
    /\ UNCHANGED <<inputs, parse_results, processed_servers, ranking, writing, prepass,
                   two_runs, root_vars, cli, io, gen_vars>>

\* lines 43-45: the batch parsed in the executor
GenParseBatch ==
    /\ pc = "parse"
    /\ processed_servers' = gen_parse_batch(all_servers_data, user_location[1],
                                            user_location[2])
    /\ pc' = "unique"
    /\ UNCHANGED <<inputs, fetched, parse_results, ranking, writing, result, prepass,
                   two_runs, root_vars, cli, io, gen_vars>>

\* lines 47-49: the dict by name, its values sorted by load and distance
GenUnique ==
    /\ pc = "unique"
    /\ final_list' = sort_servers(DictValues(unique_by_name_last(processed_servers)))
    /\ pc' = "best"
    /\ UNCHANGED <<inputs, fetched, parse_results, processed_servers, ranking, writing,
                   result, prepass, two_runs, root_vars, cli, io, best_map, gen_tasks>>

\* lines 54-64: best_map and the output directory
GenBestMap ==
    /\ pc = "best"
    /\ best_map' = gen_best_map(final_list)
    /\ out_dir_made' = TRUE
    /\ pc' = "write"
    /\ UNCHANGED <<inputs, fetched, parse_results, processed_servers, ranking, used_paths,
                   save_tasks, files, result, prepass, two_runs, root_vars, cli, io, final_list, gen_tasks>>

\* the _write coroutines of both batches in the order gather starts them
GenWork ==
    [i \in 1..Len(final_list) |-> [sub |-> STR_CONFIGS, server |-> final_list[i]]]
    \o [i \in 1..Len(best_map) |-> [sub |-> STR_BEST_CONFIGS,
                                    server |-> DictValues(best_map)[i]]]

\* _write up to its first await: with fewer than 200 servers in a batch
\* the semaphore never blocks, and the coroutine runs from the path
\* computation to aiofiles.open without yielding.  path_counts is kept per
\* batch; rel starts with the batch's folder
GenWrite ==
    /\ pc = "write"
    /\ Len(gen_tasks) < Len(GenWork)
    /\ LET w == GenWork[Len(gen_tasks) + 1]
           country == gen_sanitize(w.server.country)
           city == gen_sanitize(w.server.city)
           base == gen_basename(w.server)
           rel == <<w.sub, country, city, base>>
           count == DictGetOr(used_paths, rel, 0)
           fname == IF count > 0
                    THEN DropLast(base, 5) \o <<"_">> \o IntToStr(count) \o STR_CONF
                    ELSE base
       IN  /\ used_paths' = DictSet(used_paths, rel, count + 1)
           /\ gen_tasks' = Append(gen_tasks, [rel |-> rel, server |-> w.server,
                                              file |-> <<w.sub, country, city, fname>>])
    /\ UNCHANGED <<inputs, fetched, parse_results, processed_servers, ranking, save_tasks,
                   files, out_dir_made, result, prepass, two_runs, root_vars, cli, io, final_list, best_map, pc>>

\* lines 70-76: both batches gathered, every file written, the directory returned
GenFinish ==
    /\ pc = "write"
    /\ Len(gen_tasks) = Len(GenWork)
    /\ files' = {gen_tasks[i].file : i \in 1..Len(gen_tasks)}
    /\ result' = "output_dir"
    /\ pc' = "done"
    /\ UNCHANGED <<inputs, fetched, parse_results, processed_servers, ranking, used_paths,
                   save_tasks, out_dir_made, prepass, two_runs, root_vars, cli, io, gen_vars>>

NextGen ==
    \/ GenFetch
    \/ GenParseBatch
    \/ GenUnique
    \/ GenBestMap
    \/ GenWrite
    \/ GenFinish

SpecGen == InitGen /\ [][NextGen]_vars

GenRanked == pc \in {"best", "write"} \/ (pc = "done" /\ result = "output_dir")

\* C5: Generator.process keeps, for every name among the parsed
\* Servers, exactly one Server in final_list, the first one of that name
\* in the order of the raw list
C5_GeneratorFirstOccurrenceWins ==
    GenRanked =>
        \A i \in 1..Len(processed_servers) :
            LET name == processed_servers[i].name
                first == CHOOSE k \in NamedAt(processed_servers, name) :
                            \A m \in NamedAt(processed_servers, name) : k <= m
            IN  /\ Cardinality(NamedAt(final_list, name)) = 1
                /\ \A k \in NamedAt(final_list, name) :
                       final_list[k] = processed_servers[first]

\* C13: a failed geolocation lookup is fatal to Generator.process: the
\* run ends without ranking servers and without writing a config file
C13_GeneratorGeolocationFatal ==
    (pc # "fetch" /\ user_location = GEO_FALLBACK) =>
        /\ final_list = <<>>
        /\ best_map = <<>>
        /\ files = {}
        /\ result # "output_dir"

(***************************************************************************)
(* The root script, src/main.py: main and                                  *)
(* NordVPNConfigGenerator.generate_configs                                 *)
(***************************************************************************)
STR_UNKNOWN_LOWER == <<"u","n","k","n","o","w","n">>

\* parse_server of the root script
root_parse_server(server_data, location) ==
    IF server_data.locations = <<>> THEN ParseNone
    ELSE IF public_keys_of(server_data.technologies) = <<>> THEN ParseNone
    ELSE IF load_of(server_data).raises THEN ParseRaise
    ELSE LET loc == server_data.locations[1]
         IN  ParseServer(
               [name |-> server_data.name,
                hostname |-> server_data.hostname,
                station |-> server_data.station,
                load |-> load_of(server_data).value,
                country |-> loc.country.name,
                city |-> IF loc.country.has_city THEN loc.country.city
                         ELSE STR_UNKNOWN_LOWER,
                latitude |-> loc.latitude,
                longitude |-> loc.longitude,
                public_key |-> public_keys_of(server_data.technologies)[1],
                distance |-> calculate_distance(location[1], location[2],
                                                loc.latitude, loc.longitude)])

\* _save_config, the re.sub over country and city
root_clean(part) == RemoveChars(ReplaceChar(StrLower(part), " ", "_"), PATH_SANITIZER_CHARS)

\* _save_config, the path of the file written for a server
root_config_file(server, base_path) ==
    <<base_path, root_clean(server.country), root_clean(server.city),
      RemoveChars(RemoveChars(ReplaceChar(StrLower(server.name), " ", "_"), {"#"}),
                  PATH_SANITIZER_CHARS) \o STR_CONF>>

\* _process_and_save, the servers.json mapping country -> city -> servers
RECURSIVE root_servers_info(_)
root_servers_info(servers) ==
    IF servers = <<>> THEN <<>>
    ELSE LET info == root_servers_info(SubSeq(servers, 1, Len(servers) - 1))
             s == servers[Len(servers)]
             cities == DictGetOr(info, s.country, <<>>)
             leaf == DictGetOr(cities, s.city, [distance |-> s.distance, servers |-> <<>>])
         IN  DictSet(info, s.country,
                     DictSet(cities, s.city,
                             [leaf EXCEPT !.servers = Append(@, <<s.name, s.load>>)]))

InitRoot ==
    /\ api_servers \in ServerLists
    /\ hash_order = <<>>
    /\ preferences = NoFilter
    /\ type_priority = <<>>
    /\ RunStart

root_unchanged ==
    <<inputs, parse_results, ranking, used_paths, save_tasks, prepass, two_runs,
      final_list, gen_tasks, io>>

\* main: the token is read, checked by is_valid_token and validated against the API
RootMain ==
    /\ pc = "fetch"
    /\ \E token_valid, key_ok \in BOOLEAN :
          IF token_valid /\ key_ok
          THEN pc' = "root_key" /\ result' = result
          ELSE pc' = "done" /\ result' = "returned"
    /\ UNCHANGED <<root_unchanged, fetched, processed_servers, files, out_dir_made,
                   best_map, report, cli>>

\* generate_configs, lines 165-175: the private key is fetched again
RootGetPrivateKey ==
    /\ pc = "root_key"
    /\ \E key_ok \in BOOLEAN :
          IF key_ok
          THEN pc' = "root_dir" /\ result' = result
          ELSE pc' = "root_report" /\ result' = "Failed to get private key"
    /\ UNCHANGED <<root_unchanged, fetched, processed_servers, files, out_dir_made,
                   best_map, report, cli>>

\* generate_configs, line 177: _initialize_output_directory
RootInitializeOutputDirectory ==
    /\ pc = "root_dir"
    /\ out_dir_made' = TRUE
    /\ pc' = "root_servers"
    /\ UNCHANGED <<root_unchanged, fetched, processed_servers, files, result,
                   best_map, report, cli>>

\* generate_configs, lines 179-183: _get_servers, [] when the status is not 200
RootGetServers ==
    /\ pc = "root_servers"
    /\ \E servers_ok \in BOOLEAN :
          /\ all_servers_data' = IF servers_ok THEN api_servers ELSE <<>>
          /\ IF servers_ok
             THEN pc' = "root_location" /\ result' = result
             ELSE pc' = "root_report" /\ result' = "Failed to get servers"
    /\ UNCHANGED <<root_unchanged, user_location, processed_servers, files, out_dir_made,
                   best_map, report, cli>>

\* generate_configs, lines 186-190: _get_location
RootGetLocation ==
    /\ pc = "root_location"
    /\ \E location_ok \in BOOLEAN :
          /\ user_location' = IF location_ok THEN USER_LOCATION ELSE NoLocation
          /\ IF location_ok
             THEN pc' = "root_parse" /\ result' = result
             ELSE pc' = "root_report" /\ result' = "Failed to get location"
    /\ UNCHANGED <<root_unchanged, all_servers_data, processed_servers, files,
                   out_dir_made, best_map, report, cli>>

\* _process_and_save, lines 248-257: the records parsed in the thread pool
\* and gathered in list order, then sorted.  A ValueError of int() passes
\* every handler up to asyncio.run
RootParseAndSort ==
    /\ pc = "root_parse"
    /\ LET results == [i \in 1..Len(all_servers_data) |->
                          root_parse_server(all_servers_data[i], user_location)]
           kept == SelectSeq(results, LAMBDA r : r.kind = "Server")
       IN  IF \E i \in 1..Len(results) : results[i].kind = "ValueError"
           THEN /\ pc' = "done"
                /\ result' = "ValueError"
                /\ processed_servers' = processed_servers
                /\ final_list' = final_list
           ELSE /\ pc' = "root_configs"
                /\ result' = result
                /\ processed_servers' = [i \in 1..Len(kept) |-> kept[i].server]
                /\ final_list' = sort_servers([i \in 1..Len(kept) |-> kept[i].server])
    /\ UNCHANGED <<inputs, parse_results, ranking, used_paths, save_tasks, prepass,
                   two_runs, gen_tasks, io, fetched, files, out_dir_made, best_map,
                   report, cli>>

\* _process_and_save, lines 259-261: every config of the sorted list saved
RootSaveConfigs ==
    /\ pc = "root_configs"
    /\ files' = files \cup {root_config_file(final_list[i], STR_CONFIGS) :
                              i \in 1..Len(final_list)}
    /\ pc' = "root_best"
    /\ UNCHANGED <<inputs, parse_results, ranking, used_paths, save_tasks, prepass,
                   two_runs, gen_vars, io, fetched, processed_servers, out_dir_made,
                   result, report, cli>>

\* _process_and_save, lines 263-274: the best server per (country, city) saved
RootSaveBest ==
    /\ pc = "root_best"
    /\ best_map' = gen_best_map(final_list)
    /\ files' = files \cup {root_config_file(s, STR_BEST_CONFIGS) :
                              s \in Range(DictValues(gen_best_map(final_list)))}
    /\ pc' = "root_json"
    /\ UNCHANGED <<root_unchanged, fetched, processed_servers, out_dir_made, result,
                   report, cli>>

\* _process_and_save, lines 276-296: servers.json
RootWriteServersJson ==
    /\ pc = "root_json"
    /\ servers_info' = root_servers_info(final_list)
    /\ files' = files \cup {<<"servers.json">>}
    /\ result' = "saved"
    /\ pc' = "root_report"
    /\ UNCHANGED <<inputs, parse_results, sorted_servers, best_servers, used_paths,
                   save_tasks, prepass, two_runs, gen_vars, io, fetched,
                   processed_servers, out_dir_made, report, cli>>

\* main, lines 340-343: the report after generate_configs is back
RootReport ==
    /\ pc = "root_report"
    /\ report' = IF out_dir_made THEN "Process completed" ELSE "Process failed"
    /\ pc' = "done"
    /\ UNCHANGED <<root_unchanged, fetched, processed_servers, files, out_dir_made,
                   result, best_map, cli>>

NextRoot ==
    \/ RootMain
    \/ RootGetPrivateKey
    \/ RootInitializeOutputDirectory
    \/ RootGetServers
    \/ RootGetLocation
    \/ RootParseAndSort
    \/ RootSaveConfigs
    \/ RootSaveBest
    \/ RootWriteServersJson
    \/ RootReport

SpecRoot == InitRoot /\ [][NextRoot]_vars

\* C12: when the server-list fetch of the root script fails, the run ends
\* with no output directory on disk
C12_RootFailedFetchLeavesNoDirectory ==
    (pc = "done" /\ result = "Failed to get servers") => ~out_dir_made

(***************************************************************************)
(* ConfigurationOrchestrator._save_all_configurations with the write tasks *)
(* as the event loop runs them                                             *)
(***************************************************************************)
\* ConfigurationOrchestrator.CONCURRENT_LIMIT
CONCURRENT_LIMIT == 200

\* longest raw list of a run whose write tasks are followed one by one
MaxWriteServers == 2

InitWrite ==
    /\ api_servers \in {l \in ServerLists : Len(l) <= MaxWriteServers}
    /\ hash_order \in HashOrders
    /\ preferences = NoFilter
    /\ type_priority = build_type_priority(api_servers)
    /\ \A i \in 1..Len(api_servers) :
          ParsedList(api_servers, preferences, type_priority, hash_order)[i].kind
             # "ValueError"
    /\ user_location = USER_LOCATION
    /\ all_servers_data = api_servers
    /\ parse_results = ParsedList(api_servers, preferences, type_priority, hash_order)
    /\ processed_servers =
          LET kept == SelectSeq(parse_results, LAMBDA r : r.kind = "Server")
          IN  [i \in 1..Len(kept) |-> kept[i].server]
    /\ sorted_servers = sort_servers(deduplicate(processed_servers))
    /\ best_servers = get_best_servers(sorted_servers)
    /\ servers_info = build_servers_info(sorted_servers)
    /\ out_dir_made = TRUE
    /\ pc = "configs"
    /\ used_paths = <<>>
    /\ save_tasks = <<>>
    /\ files = {}
    /\ result = "running"
    /\ filtered_servers = <<>>
    /\ run_out = <<>>
    /\ final_list = <<>>
    /\ best_map = <<>>
    /\ gen_tasks = <<>>
    /\ report = "none"
    /\ connection_prefs = NoPrompt
    /\ final_preferences = NoPreferences
    /\ write_state = <<>>
    /\ sem_value = <<CONCURRENT_LIMIT>>
    /\ in_flight = <<>>

write_unchanged ==
    <<inputs, fetched, parse_results, processed_servers, ranking, used_paths, save_tasks,
      out_dir_made, prepass, two_runs, gen_vars, root_vars, cli, in_flight>>

\* a failing write task: its exception leaves gather and generate
RaiseFromTask == IF pc = "write" THEN pc' = "aborted" /\ result' = "OSError"
                 ELSE UNCHANGED <<pc, result>>

\* the first step of the next task with the tasks started as they are created
write_phase_entered_early == pc \in {"configs", "best_configs", "write", "aborted"}

\* may the first step of the next task run: the coroutines made by
\* _create_batch_save_tasks start when gather schedules them, line 352
write_phase_entered == pc \in {"write", "aborted"}

\* _save_config_file up to its first suspension, for the tasks in the order
\* gather scheduled them: mkdir, then the semaphore, then aiofiles.open is
\* under way.  mkdir may raise
StartWrite ==
    /\ write_phase_entered
    /\ Len(write_state) < Len(save_tasks)
    /\ \E mkdir_ok \in BOOLEAN :
          IF mkdir_ok
          THEN /\ sem_value[1] > 0
               /\ sem_value' = <<sem_value[1] - 1>>
               /\ write_state' = Append(write_state, "holding")
               /\ UNCHANGED <<pc, result>>
          ELSE /\ write_state' = Append(write_state, "failed")
               /\ sem_value' = sem_value
               /\ RaiseFromTask
    /\ UNCHANGED <<write_unchanged, files>>

\* the file of task i written and closed, the semaphore released
CompleteWrite(i) ==
    /\ write_phase_entered
    /\ write_state[i] = "holding"
    /\ write_state' = [write_state EXCEPT ![i] = "done"]
    /\ sem_value' = <<sem_value[1] + 1>>
    /\ files' = files \cup {TaskFile(save_tasks[i])}
    /\ UNCHANGED <<write_unchanged, pc, result>>

\* aiofiles.open or write of task i raises OSError, the semaphore released
FailWrite(i) ==
    /\ write_phase_entered
    /\ write_state[i] = "holding"
    /\ write_state' = [write_state EXCEPT ![i] = "failed"]
    /\ sem_value' = <<sem_value[1] + 1>>
    /\ RaiseFromTask
    /\ UNCHANGED <<write_unchanged, files>>

\* a wait that is over with the first task done
GatherSavedFirstDone ==
    /\ pc = "write"
    /\ \E i \in 1..Len(write_state) : write_state[i] = "done"
    /\ pc' = "json"
    /\ UNCHANGED <<write_unchanged, files, result, write_state, sem_value>>

\* line 352: gather returns when every task is done
GatherSaved ==
    /\ pc = "write"
    /\ Len(write_state) = Len(save_tasks)
    /\ \A i \in 1..Len(write_state) : write_state[i] = "done"
    /\ pc' = "json"
    /\ UNCHANGED <<write_unchanged, files, result, write_state, sem_value>>

\* Application.run, lines 578-588: the exception is reported, the run ends
\* and asyncio.run cancels the tasks still pending
AbortRun ==
    /\ pc = "aborted"
    /\ write_state' = [i \in 1..Len(write_state) |->
                          IF write_state[i] = "holding" THEN "cancelled"
                          ELSE write_state[i]]
    /\ sem_value' = <<sem_value[1]
                      + Cardinality({i \in 1..Len(write_state) : write_state[i] = "holding"})>>
    /\ pc' = "done"
    /\ UNCHANGED <<write_unchanged, files, result>>

NextWrite ==
    \/ CreateConfigsTask
    \/ CreateBestConfigsTask
    \/ StartWrite
    \/ \E i \in 1..Len(write_state) : CompleteWrite(i)
    \/ \E i \in 1..Len(write_state) : FailWrite(i)
    \/ GatherSaved
    \/ AbortRun
    \/ WriteServersJson

SpecWrite == InitWrite /\ [][NextWrite]_vars

\* C14: when the write of one config file has failed, every other config
\* write still completes, servers.json is written and generate returns the
\* output directory
C14_WriteFailureDoesNotAbort ==
    (pc = "done" /\ \E i \in 1..Len(write_state) : write_state[i] = "failed") =>
        /\ Len(write_state) = Len(save_tasks)
        /\ \A i \in 1..Len(write_state) : write_state[i] \in {"done", "failed"}
        /\ <<"servers.json">> \in files
        /\ result = "output_dir"

\* the Servers of the save tasks in list order: the ranked list, then
\* list(best_servers.values())
TaskServers == sorted_servers \o DictValues(best_servers)

\* the registry after the first n save tasks were created in that order
RegistryAfter(n) ==
    LET n_all == Min(n, Len(sorted_servers))
        all == create_batch_save_tasks(SubSeq(sorted_servers, 1, n_all), STR_CONFIGS, <<>>)
    IN  create_batch_save_tasks(SubSeq(DictValues(best_servers), 1, n - n_all),
                                STR_BEST_CONFIGS, all.used_paths).used_paths

\* C20: the path registry is completed before the write phase starts: when
\* the first config file write begins every filename of both batches has
\* been resolved, and the registry entries are inserted in list order, the
\* 'configs' servers first, then the best servers
C20_RegistryCompleteBeforeWrites ==
    /\ Len(save_tasks) <= Len(TaskServers)
    /\ \A i \in 1..Len(save_tasks) :
          /\ save_tasks[i].server = TaskServers[i]
          /\ save_tasks[i].subfolder =
                 IF i <= Len(sorted_servers) THEN STR_CONFIGS ELSE STR_BEST_CONFIGS
          /\ save_tasks[i].rel \in DOMAIN used_paths
    /\ used_paths = RegistryAfter(Len(save_tasks))
    /\ (write_state # <<>> \/ files # {}) =>
          /\ Len(save_tasks) = Len(TaskServers)
          /\ used_paths = RegistryAfter(Len(TaskServers))

\* a write has begun on a registry of both batches that holds a suffixed name
C20_Witness ==
    /\ write_state # <<>>
    /\ \E i \in 1..Len(write_state) : write_state[i] = "holding"
    /\ Len(sorted_servers) >= 2
    /\ \E i \in 1..Len(save_tasks) : save_tasks[i].filename # save_tasks[i].base_filename

(***************************************************************************)
(* The semaphores of the write phase.  The write tasks of a batch run the  *)
(* same code, so a batch is three counters: tasks that have not entered    *)
(* their semaphore, tasks inside it with their file open, tasks that have  *)
(* left it (file closed, or an exception raised: async with releases the   *)
(* permit either way)                                                      *)
(***************************************************************************)
\* tasks beyond the limit of a semaphore in the larger runs
MaxWaiting == 2

\* (servers ranked, best servers) of the runs followed
TaskCounts ==
    {<<a, b>> \in {1, CONCURRENT_LIMIT, CONCURRENT_LIMIT + MaxWaiting} \X (1..MaxWaiting) :
        b <= a}

Batch(n) == [pending |-> n, open |-> 0, closed |-> 0]

\* a run at the gather of its write tasks, nothing but the tasks modelled
AtGather ==
    /\ api_servers = <<>>
    /\ hash_order = <<>>
    /\ preferences = NoFilter
    /\ type_priority = <<>>
    /\ user_location = USER_LOCATION
    /\ all_servers_data = <<>>
    /\ parse_results = <<>>
    /\ processed_servers = <<>>
    /\ sorted_servers = <<>>
    /\ best_servers = <<>>
    /\ servers_info = <<>>
    /\ used_paths = <<>>
    /\ save_tasks = <<>>
    /\ files = {}
    /\ out_dir_made = TRUE
    /\ result = "running"
    /\ filtered_servers = <<>>
    /\ run_out = <<>>
    /\ final_list = <<>>
    /\ best_map = <<>>
    /\ gen_tasks = <<>>
    /\ report = "none"
    /\ connection_prefs = NoPrompt
    /\ final_preferences = NoPreferences
    /\ write_state = <<>>
    /\ pc = "write"

throttle_unchanged ==
    <<inputs, fetched, parse_results, processed_servers, ranking, writing, result,
      prepass, two_runs, gen_vars, root_vars, cli, write_state>>

\* ConfigurationOrchestrator.__init__: one semaphore for the run
InitThrottle ==
    /\ AtGather
    /\ \E n \in TaskCounts : in_flight = <<Batch(n[1]), Batch(n[2])>>
    /\ sem_value = <<CONCURRENT_LIMIT>>

\* no semaphore around the file
permit_free_always(sem) == TRUE

\* async with self._semaphore: a permit is free
permit_free(sem) == sem_value[sem] > 0

\* the files open for writing
OpenFiles == in_flight[1].open + in_flight[2].open

\* _save_config_file, lines 393-394: the next task of the gather list enters
\* the semaphore and opens its file; the tasks of 'best_configs' are behind
\* those of 'configs' in the list and in the semaphore's queue
OpenConfigFile(b) ==
    /\ pc = "write"
    /\ in_flight[b].pending > 0
    /\ b = 2 => in_flight[1].pending = 0
    /\ permit_free(1)
    /\ in_flight' = [in_flight EXCEPT ![b].pending = @ - 1, ![b].open = @ + 1]
    /\ sem_value' = <<sem_value[1] - 1>>
    /\ UNCHANGED <<throttle_unchanged, pc>>

\* _save_config_file, lines 394-396: the file is closed, the permit released
CloseConfigFile(b) ==
    /\ pc = "write"
    /\ in_flight[b].open > 0
    /\ in_flight' = [in_flight EXCEPT ![b].open = @ - 1, ![b].closed = @ + 1]
    /\ sem_value' = <<sem_value[1] + 1>>
    /\ UNCHANGED <<throttle_unchanged, pc>>

\* line 352: gather is back
AllFilesClosed ==
    /\ pc = "write"
    /\ \A b \in 1..2 : in_flight[b].pending = 0 /\ in_flight[b].open = 0
    /\ pc' = "json"
    /\ UNCHANGED <<throttle_unchanged, io>>

NextThrottle ==
    \/ \E b \in 1..2 : OpenConfigFile(b)
    \/ \E b \in 1..2 : CloseConfigFile(b)
    \/ AllFilesClosed

SpecThrottle == InitThrottle /\ [][NextThrottle]_vars

\* C17: in a ConfigurationOrchestrator run at most 200 config files are
\* open for writing at any moment, both batches counted together
C17_OpenFilesBounded == OpenFiles <= CONCURRENT_LIMIT

\* the limit is reached while tasks of both batches wait for a permit
C17_Witness ==
    /\ OpenFiles = CONCURRENT_LIMIT
    /\ in_flight[1].pending > 0
    /\ in_flight[2].pending > 0

(***************************************************************************)
(* Generator._write_batch: each of the two concurrent batches makes its    *)
(* own semaphore                                                           *)
(***************************************************************************)
InitGenThrottle ==
    /\ AtGather
    /\ \E n \in TaskCounts : in_flight = <<Batch(n[1]), Batch(n[2])>>
    /\ sem_value = <<CONCURRENT_LIMIT, CONCURRENT_LIMIT>>

\* _write of batch b, lines 153-177: the task enters the semaphore of its
\* batch and opens its file
GenOpenFile(b) ==
    /\ pc = "write"
    /\ in_flight[b].pending > 0
    /\ permit_free(b)
    /\ in_flight' = [in_flight EXCEPT ![b].pending = @ - 1, ![b].open = @ + 1]
    /\ sem_value' = [sem_value EXCEPT ![b] = @ - 1]
    /\ UNCHANGED <<throttle_unchanged, pc>>

\* _write of batch b, lines 177-179: the file is closed, the permit released
GenCloseFile(b) ==
    /\ pc = "write"
    /\ in_flight[b].open > 0
    /\ in_flight' = [in_flight EXCEPT ![b].open = @ - 1, ![b].closed = @ + 1]
    /\ sem_value' = [sem_value EXCEPT ![b] = @ + 1]
    /\ UNCHANGED <<throttle_unchanged, pc>>

\* process, lines 70-76: both batches gathered
GenAllFilesClosed ==
    /\ pc = "write"
    /\ \A b \in 1..2 : in_flight[b].pending = 0 /\ in_flight[b].open = 0
    /\ pc' = "done"
    /\ result' = "output_dir"
    /\ UNCHANGED <<inputs, fetched, parse_results, processed_servers, ranking, writing,
                   prepass, two_runs, gen_vars, root_vars, cli, io>>

NextGenThrottle ==
    \/ \E b \in 1..2 : GenOpenFile(b)
    \/ \E b \in 1..2 : GenCloseFile(b)
    \/ GenAllFilesClosed

SpecGenThrottle == InitGenThrottle /\ [][NextGenThrottle]_vars

\* C18: in a Generator.process run at most 200 config files are open for
\* writing at any moment, both batches counted together
C18_GeneratorOpenFilesBounded ==
    in_flight[1].open + in_flight[2].open <= CONCURRENT_LIMIT

(***************************************************************************)
(* Application._build_final_preferences: the DNS and keepalive answers     *)
(***************************************************************************)
\* U+00B2 SUPERSCRIPT TWO, written in ASCII: a character for which
\* str.isdigit() is True and which int() does not accept
SUPERSCRIPT_TWO == "^2"

\* UserPreferences, lines 45 and 47
DEFAULT_DNS == <<"1","0","3",".","8","6",".","9","6",".","1","0","0">>
DEFAULT_KEEPALIVE == 25

\* s.isdigit(): not empty, every character a digit character
str_isdigit(s) ==
    /\ s # <<>>
    /\ \A i \in 1..Len(s) : IsDigit(s[i]) \/ s[i] = SUPERSCRIPT_TWO

\* s.isdecimal(): not empty, every character a decimal digit
str_isdecimal(s) ==
    /\ s # <<>>
    /\ \A i \in 1..Len(s) : IsDigit(s[i])

\* int(s) raises ValueError
int_raises(s) == ~str_isdecimal(s)

DigitValue(c) == (CHOOSE i \in 1..10 : DigitChars[i] = c) - 1

\* int(s) of a decimal string
RECURSIVE int_of(_)
int_of(s) ==
    IF s = <<>> THEN 0
    ELSE int_of(DropLast(s, 1)) * 10 + DigitValue(s[Len(s)])

\* line 786: all(p.isdigit() and 0 <= int(p) <= 255 for p in parts), left
\* to right, stopping at the first part that fails
RECURSIVE all_parts_valid(_)
all_parts_valid(parts) ==
    IF parts = <<>> THEN "True"
    ELSE IF ~str_isdigit(Head(parts)) THEN "False"
    ELSE IF int_raises(Head(parts)) THEN "ValueError"
    ELSE IF ~(0 <= int_of(Head(parts)) /\ int_of(Head(parts)) <= 255) THEN "False"
    ELSE all_parts_valid(Tail(parts))

\* lines 783-787
dns_accepted(dns_input) ==
    IF dns_input = <<>> THEN "False"
    ELSE IF Len(Split(dns_input, ".")) = 4 THEN all_parts_valid(Split(dns_input, "."))
    ELSE "False"

\* the same with isdecimal for isdigit
dns_accepted_decimal(dns_input) ==
    IF dns_input # <<>>
       /\ Len(Split(dns_input, ".")) = 4
       /\ \A i \in 1..4 : /\ str_isdecimal(Split(dns_input, ".")[i])
                          /\ int_of(Split(dns_input, ".")[i]) <= 255
    THEN "True" ELSE "False"

\* lines 793-797
keepalive_accepted(keepalive_input) ==
    IF keepalive_input # <<>> /\ str_isdigit(keepalive_input)
    THEN IF int_raises(keepalive_input) THEN "ValueError"
         ELSE IF 15 <= int_of(keepalive_input) /\ int_of(keepalive_input) <= 120
              THEN "True" ELSE "False"
    ELSE "False"

\* lines 780-797: the dns and persistent_keepalive of the result, or the
\* exception that leaves the function
build_final_preferences(prefs) ==
    IF dns_accepted(prefs.dns) = "ValueError" \/ keepalive_accepted(prefs.keepalive) = "ValueError"
    THEN [kind |-> "ValueError"]
    ELSE [kind |-> "UserPreferences",
          dns |-> IF dns_accepted(prefs.dns) = "True" THEN prefs.dns ELSE DEFAULT_DNS,
          persistent_keepalive |->
              IF keepalive_accepted(prefs.keepalive) = "True"
              THEN int_of(prefs.keepalive) ELSE DEFAULT_KEEPALIVE]

\* the answers followed
MaxDnsParts == 4
MaxKeepaliveLen == 3
DnsParts == {<<>>, <<"0">>, <<"2","5","5">>, <<"2","5","6">>, <<SUPERSCRIPT_TWO>>}
KeepaliveChars == {"0", "1", "2", "5", "a", SUPERSCRIPT_TWO}

RECURSIVE Words(_, _)
Words(alphabet, n) ==
    IF n = 0 THEN {<<>>}
    ELSE Words(alphabet, n - 1) \cup
         {w \o <<a>> : w \in Words(alphabet, n - 1), a \in alphabet}

DnsInputs == {Join(w, ".") : w \in Words(DnsParts, MaxDnsParts)}
KeepaliveInputs == Words(KeepaliveChars, MaxKeepaliveLen)

InitPrefs ==
    /\ api_servers = <<>>
    /\ hash_order = <<>>
    /\ preferences = NoFilter
    /\ type_priority = <<>>
    /\ RunStart
    /\ sem_value = <<>>

prefs_unchanged ==
    <<inputs, fetched, parse_results, processed_servers, ranking, writing, prepass,
      two_runs, gen_vars, root_vars, io>>

\* ConsoleManager.get_server_type_selection, ui.py lines 48-50: the answers
\* to the DNS and keepalive prompts
GetServerTypeSelection ==
    /\ pc = "fetch"
    /\ \E d \in DnsInputs, k \in KeepaliveInputs :
           connection_prefs' = [dns |-> d, keepalive |-> k]
    /\ pc' = "prompted"
    /\ UNCHANGED <<prefs_unchanged, result, final_preferences>>

\* _run_generate_command, lines 643-648
BuildFinalPreferences ==
    /\ pc = "prompted"
    /\ final_preferences' = build_final_preferences(connection_prefs)
    /\ pc' = IF build_final_preferences(connection_prefs).kind = "ValueError"
             THEN "raised" ELSE "built"
    /\ UNCHANGED <<prefs_unchanged, result, connection_prefs>>

\* Application.run, lines 587-588: the exception ends the command
UnrecoverableError ==
    /\ pc = "raised"
    /\ result' = "An unrecoverable error occurred"
    /\ pc' = "done"
    /\ UNCHANGED <<prefs_unchanged, cli>>

NextPrefs ==
    \/ GetServerTypeSelection
    \/ BuildFinalPreferences
    \/ UnrecoverableError

SpecPrefs == InitPrefs /\ [][NextPrefs]_vars

\* C19: an invalid dns or keepalive answer is never fatal and is replaced by
\* the default: persistent_keepalive is the answer when it is a decimal
\* integer in 15..120 and 25 otherwise; dns is the answer when it has four
\* dot-separated decimal parts each in 0..255 and 103.86.96.100 otherwise
C19_InvalidAnswersDefaulted ==
    pc \notin {"fetch", "prompted"} =>
        /\ final_preferences.kind = "UserPreferences"
        /\ final_preferences.persistent_keepalive =
               IF str_isdecimal(connection_prefs.keepalive)
                  /\ int_of(connection_prefs.keepalive) >= 15
                  /\ int_of(connection_prefs.keepalive) <= 120
               THEN int_of(connection_prefs.keepalive) ELSE DEFAULT_KEEPALIVE
        /\ final_preferences.dns =
               IF dns_accepted_decimal(connection_prefs.dns) = "True"
               THEN connection_prefs.dns ELSE DEFAULT_DNS

(***************************************************************************)
(* Generator._write_batch: the names given inside the write tasks.  The    *)
(* tasks that hold a permit differ only in when they leave, so they are    *)
(* counted; the tasks that entered are kept with their list position and   *)
(* the count they read                                                     *)
(***************************************************************************)
\* a Server of the batch: name '<i>x<digit>', so that the trailing digits
\* of the name are the one digit
BatchServer(i, digit) ==
    [name |-> IntToStr(i) \o <<"x", digit>>, station |-> STATION_1,
     country |-> FRANCE, country_code |-> <<"f","r">>, city |-> PARIS]

\* the batches followed: every Server with the same basename, and the
\* basenames alternating
BatchLists ==
    {[i \in 1..n |-> BatchServer(i, d[(i % 2) + 1])] :
        n \in {MaxWaiting + 1, CONCURRENT_LIMIT + MaxWaiting},
        d \in {<<"1", "1">>, <<"1", "2">>}}

\* lines 154-157: rel of a Server of the batch
gen_rel(sub, srv) ==
    <<sub, gen_sanitize(srv.country), gen_sanitize(srv.city), gen_basename(srv)>>

\* the waiters a release may wake, any of them
any_waiter(entered, n) == (1..n) \ {entered[i].pos : i \in 1..Len(entered)}

\* asyncio.gather starts the tasks in list order and asyncio.Semaphore
\* wakes its waiters first in, first out: the next task to pass
\* 'async with sem' is the first of the list that has not
next_waiter(entered, n) == IF Len(entered) < n THEN {Len(entered) + 1} ELSE {}

InitGenNames ==
    /\ api_servers = <<>>
    /\ hash_order = <<>>
    /\ preferences = NoFilter
    /\ type_priority = <<>>
    /\ pc = "fetch"
    /\ user_location = USER_LOCATION
    /\ all_servers_data = <<>>
    /\ parse_results = <<>>
    /\ processed_servers = <<>>
    /\ sorted_servers = <<>>
    /\ best_servers = <<>>
    /\ servers_info = <<>>
    /\ used_paths = <<>>
    /\ save_tasks = <<>>
    /\ files = {}
    /\ out_dir_made = TRUE
    /\ result = "running"
    /\ filtered_servers = <<>>
    /\ run_out = <<>>
    /\ final_list \in BatchLists
    /\ best_map = <<>>
    /\ gen_tasks = <<>>
    /\ report = "none"
    /\ connection_prefs = NoPrompt
    /\ final_preferences = NoPreferences
    /\ write_state = <<>>
    /\ sem_value = <<>>
    /\ in_flight = <<>>

gen_names_unchanged ==
    <<inputs, fetched, parse_results, processed_servers, ranking, save_tasks, files,
      out_dir_made, prepass, two_runs, root_vars, cli, write_state, final_list, best_map>>

\* _write_batch, lines 149-150 and 181-182: the semaphore and path_counts
\* of the batch are made, the tasks gathered
GenWriteBatch ==
    /\ pc = "fetch"
    /\ sem_value' = <<CONCURRENT_LIMIT>>
    /\ used_paths' = <<>>
    /\ gen_tasks' = <<>>
    /\ in_flight' = <<Batch(Len(final_list))>>
    /\ pc' = "write"
    /\ UNCHANGED <<gen_names_unchanged, result>>

\* _write, lines 153-176: a task passes 'async with sem', reads and
\* updates path_counts and goes on to aiofiles.open without yielding
GenEnterWrite ==
    /\ pc = "write"
    /\ permit_free(1)
    /\ \E p \in next_waiter(gen_tasks, Len(final_list)) :
          LET rel == gen_rel(STR_CONFIGS, final_list[p])
              count == DictGetOr(used_paths, rel, 0)
          IN  /\ used_paths' = DictSet(used_paths, rel, count + 1)
              /\ gen_tasks' = Append(gen_tasks, [pos |-> p, rel |-> rel, count |-> count])
    /\ sem_value' = <<sem_value[1] - 1>>
    /\ in_flight' = [in_flight EXCEPT ![1].pending = @ - 1, ![1].open = @ + 1]
    /\ UNCHANGED <<gen_names_unchanged, pc, result>>

\* _write, lines 176-178: one of the tasks inside the semaphore leaves it
GenLeaveWrite ==
    /\ pc = "write"
    /\ in_flight[1].open > 0
    /\ sem_value' = <<sem_value[1] + 1>>
    /\ in_flight' = [in_flight EXCEPT ![1].open = @ - 1, ![1].closed = @ + 1]
    /\ UNCHANGED <<gen_names_unchanged, pc, result, used_paths, gen_tasks>>

\* line 182: gather is back
GenBatchWritten ==
    /\ pc = "write"
    /\ in_flight[1].pending = 0 /\ in_flight[1].open = 0
    /\ pc' = "done"
    /\ result' = "output_dir"
    /\ UNCHANGED <<gen_names_unchanged, used_paths, gen_tasks, io>>

NextGenNames ==
    \/ GenWriteBatch
    \/ GenEnterWrite
    \/ GenLeaveWrite
    \/ GenBatchWritten

SpecGenNames == InitGenNames /\ [][NextGenNames]_vars

\* C21: in _write_batch the suffix of a Server depends only on its position
\* in the list, not on the order in which the tasks get the semaphore or
\* finish: among Servers of one relative path the earlier in the list has
\* the smaller suffix, for lists longer than the semaphore limit too.
\* Stated of the task that entered last and every task before it: each
\* task is the last one when it enters, and its entry is not rewritten.
\* The suffix is the number of Servers of the same path before it in the list
C21_SuffixByListPosition ==
    (pc \in {"write", "done"} /\ gen_tasks # <<>>) =>
        LET last == gen_tasks[Len(gen_tasks)]
        IN  /\ {gen_tasks[i].pos : i \in 1..Len(gen_tasks)} = 1..last.pos
            /\ last.count =
                  Cardinality({i \in 1..Len(gen_tasks) :
                      gen_tasks[i].pos < last.pos /\ gen_tasks[i].rel = last.rel})
            /\ \A i \in 1..(Len(gen_tasks) - 1) :
                  gen_tasks[i].rel = last.rel =>
                      /\ gen_tasks[i].pos < last.pos => gen_tasks[i].count < last.count
                      /\ last.pos < gen_tasks[i].pos => last.count < gen_tasks[i].count

\* a Server behind the semaphore limit entered after tasks had left, while
\* others still hold their permit, and has a suffix
C21_Witness ==
    /\ pc = "write"
    /\ Len(gen_tasks) > CONCURRENT_LIMIT
    /\ gen_tasks[Len(gen_tasks)].pos > CONCURRENT_LIMIT
    /\ gen_tasks[Len(gen_tasks)].count > 0
    /\ in_flight[1].open > 1
    /\ in_flight[1].pending > 0

(***************************************************************************)
(* _extract_base_filename over Server names, stations and types            *)
(***************************************************************************)
MaxNameLen == 3
NameChars == {"a", "#", "1", "2"}
\* a name with more digits than the stem keeps
LONG_NUMBER_NAME ==
    <<"f","r","1","2","3","4","5","6","7","8","9","0","1","2","3","4","5","6">>
ServerNames == Words(NameChars, MaxNameLen) \cup {LONG_NUMBER_NAME}

STATION_LONG == <<"1","0","0",".","1","0","0",".","1","0","0",".","1","0","0",".","1","0","0">>
STR_DOUBLE_VPN == <<"D","o","u","b","l","e"," ","V","P","N">>
STR_STANDARD == <<"S","t","a","n","d","a","r","d">>

\* a Server as _parse_server_data makes it from record 1 of the pool, with
\* the name, station and type under test
NamedServer(name, station, server_type) ==
    [name |-> name, hostname |-> "h1", station |-> station, load |-> 10,
     country |-> FRANCE, country_code |-> <<"f","r">>, city |-> PARIS,
     region |-> format_region(EUROPE), server_type |-> server_type,
     latitude |-> 1, longitude |-> 1, public_key |-> "K1", distance |-> 0]

NamedServers ==
    {NamedServer(n, st, t) : n \in ServerNames, st \in {STATION_1, STATION_LONG},
                             t \in {STR_STANDARD, STR_DOUBLE_VPN}}

\* _save_all_configurations entered with a ranked list of one Server
InitNames ==
    /\ api_servers = <<>>
    /\ hash_order = <<>>
    /\ preferences = NoFilter
    /\ type_priority = <<>>
    /\ user_location = USER_LOCATION
    /\ all_servers_data = <<>>
    /\ parse_results = <<>>
    /\ \E srv \in NamedServers :
          /\ processed_servers = <<srv>>
          /\ sorted_servers = <<srv>>
          /\ best_servers = get_best_servers(<<srv>>)
          /\ servers_info = build_servers_info(<<srv>>)
    /\ used_paths = <<>>
    /\ save_tasks = <<>>
    /\ files = {}
    /\ out_dir_made = TRUE
    /\ result = "running"
    /\ filtered_servers = <<>>
    /\ run_out = <<>>
    /\ final_list = <<>>
    /\ best_map = <<>>
    /\ gen_tasks = <<>>
    /\ report = "none"
    /\ connection_prefs = NoPrompt
    /\ final_preferences = NoPreferences
    /\ write_state = <<>>
    /\ sem_value = <<>>
    /\ in_flight = <<>>
    /\ pc = "configs"

NextNames ==
    \/ CreateConfigsTask
    \/ CreateBestConfigsTask

SpecNames == InitNames /\ [][NextNames]_vars

\* the maximal run of digits at the very end of a name
RECURSIVE TrailingDigits(_)
TrailingDigits(name) ==
    IF name = <<>> \/ ~IsDigit(name[Len(name)]) THEN <<>>
    ELSE Append(TrailingDigits(DropLast(name, 1)), name[Len(name)])

\* C22: the digits of the filename stem are exactly the maximal run of
\* digits at the very end of the server name; when the name does not end in
\* a digit the stem is 'wg' and the station without its dots; the stem is
\* cut to 15 characters before '_{serverType}.conf' is appended (the type
\* with its spaces written as underscores)
C22_StemFromTrailingDigits ==
    \A i \in 1..Len(save_tasks) :
        LET srv == save_tasks[i].server
            digits == TrailingDigits(srv.name)
            stem == IF digits # <<>> THEN srv.country_code \o digits
                    ELSE STR_WG \o RemoveChars(srv.station, {"."})
        IN  save_tasks[i].base_filename =
                Prefix(stem, StemLimit) \o <<"_">>
                \o ReplaceChar(srv.server_type, " ", "_") \o STR_CONF

(***************************************************************************)
(* Further properties of one call of _parse_server_data (SpecParse)        *)
(***************************************************************************)
\* the region of the first group, in the order of the record's groups list,
\* whose identifier holds a region keyword
ListRegion(groups) ==
    LET hits == SelectSeq(groups, is_region_group)
    IN  IF hits = <<>> THEN STR_UNKNOWN ELSE format_region(hits[1])

\* C23: the region of a parsed Server comes from the first group, in the
\* order of the record's groups list, whose identifier contains one of
\* europe, america, asia, africa, each underscore-separated word
\* capitalized, and is 'Unknown' when no group matches
C23_RegionFirstInListOrder ==
    (pc = "parsed" /\ parse_results[1].kind = "Server") =>
        parse_results[1].server.region = ListRegion(api_servers[1].groups)

\* the parse result of the record with its load written as 0
ParsedWithLoadZero ==
    parse_server_data([api_servers[1] EXCEPT !.load = LoadInt(0)], USER_LOCATION,
                      preferences, type_priority, hash_order)

\* C24: a record whose load is missing or not a valid integer is parsed
\* with load 0: it is neither rejected for that reason nor does the parser
\* raise
C24_BadLoadReadAsZero ==
    (pc = "parsed" /\ (~api_servers[1].load.present \/ ~api_servers[1].load.valid)) =>
        /\ parse_results[1].kind # "ValueError"
        /\ parse_results[1] = ParsedWithLoadZero

(***************************************************************************)
(* _save_all_configurations over ranked lists whose Servers share a        *)
(* directory after sanitizing: city names that differ in case only         *)
(***************************************************************************)
MaxBestServers == 3
PARIS_LOWER == <<"p","a","r","i","s">>

CityServer(name, city, load) ==
    [NamedServer(name, STATION_1, STR_STANDARD) EXCEPT !.city = city, !.load = load]

CityServers ==
    {CityServer(n, c, l) : n \in {<<"f","r","1">>, <<"f","x","1">>, <<"f","y","1">>},
                           c \in {PARIS, PARIS_LOWER}, l \in {1, 2}}

\* lists of Servers of different names, as _process_server_data and the
\* deduplication leave them
CityLists ==
    {l \in UNION {[1..n -> CityServers] : n \in 1..MaxBestServers} :
        \A i, j \in DOMAIN l : i # j => l[i].name # l[j].name}

\* generate, lines 292-299: the list ranked, the best Servers selected,
\* _save_all_configurations entered
InitBestNames ==
    /\ api_servers = <<>>
    /\ hash_order = <<>>
    /\ preferences = NoFilter
    /\ type_priority = <<>>
    /\ user_location = USER_LOCATION
    /\ all_servers_data = <<>>
    /\ parse_results = <<>>
    /\ processed_servers \in CityLists
    /\ sorted_servers = sort_servers(processed_servers)
    /\ best_servers = get_best_servers(sorted_servers)
    /\ servers_info = build_servers_info(sorted_servers)
    /\ used_paths = <<>>
    /\ save_tasks = <<>>
    /\ files = {}
    /\ out_dir_made = TRUE
    /\ result = "running"
    /\ filtered_servers = <<>>
    /\ run_out = <<>>
    /\ final_list = <<>>
    /\ best_map = <<>>
    /\ gen_tasks = <<>>
    /\ report = "none"
    /\ connection_prefs = NoPrompt
    /\ final_preferences = NoPreferences
    /\ write_state = <<>>
    /\ sem_value = <<>>
    /\ in_flight = <<>>
    /\ pc = "configs"

SpecBestNames == InitBestNames /\ [][NextNames]_vars

\* the task of a Server under 'configs'
ConfigsTaskOf(srv) ==
    save_tasks[CHOOSE i \in 1..Len(save_tasks) :
                   save_tasks[i].subfolder = STR_CONFIGS /\ save_tasks[i].server = srv]

BestTasks == {i \in 1..Len(save_tasks) : save_tasks[i].subfolder = STR_BEST_CONFIGS}

\* the Server shares its 'configs' path with a Server of another group key
SharesPathAcrossKeys(srv) ==
    \E i \in 1..Len(save_tasks) :
        /\ save_tasks[i].subfolder = STR_CONFIGS
        /\ save_tasks[i].rel_path = ConfigsTaskOf(srv).rel_path
        /\ best_key(save_tasks[i].server) # best_key(srv)

\* C26 as stated: for every Server selected as best, the filename given to
\* it under best_configs equals the one given to it under configs, both
\* unsuffixed
C26_BestNameEqualsConfigsName ==
    pc = "write" =>
        \A i \in BestTasks :
            /\ save_tasks[i].filename = ConfigsTaskOf(save_tasks[i].server).filename
            /\ save_tasks[i].filename = save_tasks[i].base_filename

\* C26, amended: the same for every best Server whose directory and base
\* filename are not shared with a Server of another group key
C26_BestNameEqualsConfigsNameWithinKey ==
    pc = "write" =>
        \A i \in BestTasks :
            ~SharesPathAcrossKeys(save_tasks[i].server) =>
                /\ save_tasks[i].filename = ConfigsTaskOf(save_tasks[i].server).filename
                /\ save_tasks[i].filename = save_tasks[i].base_filename

\* a best Server that shares its path with a Server of its own key only,
\* the other one suffixed
C26_Witness ==
    /\ pc = "write"
    /\ \E i \in BestTasks :
          /\ ~SharesPathAcrossKeys(save_tasks[i].server)
          /\ \E j \in 1..Len(save_tasks) :
                /\ save_tasks[j].subfolder = STR_CONFIGS
                /\ save_tasks[j].rel_path = ConfigsTaskOf(save_tasks[i].server).rel_path
                /\ save_tasks[j].filename # save_tasks[j].base_filename

(***************************************************************************)
(* The type label and the two type filters (SpecParse)                     *)
(***************************************************************************)
\* C27: when a type filter is active (server_types a non-empty list, the
\* short aliases standard, p2p, dedicated_ip included) and
\* _parse_server_data returns a Server, its server_type is the display name
\* of one of the requested types and never 'Other'
C27_LabelIsRequestedType ==
    (pc = "parsed" /\ Truthy(preferences.server_types)
       /\ parse_results[1].kind = "Server") =>
        /\ parse_results[1].server.server_type # STR_OTHER
        /\ \E i \in 1..Len(preferences.server_types.items) :
              parse_results[1].server.server_type =
                  format_type_name(type_mapping(preferences.server_types.items[i]))

\* C28: the pre-pass and the inline type filter agree: for every list of
\* selected types (not None) and every record, _filter_servers_by_types
\* keeps the record exactly when the type-filter step of
\* _parse_server_data with the same server_types does not reject it
C28_PrepassAgreesWithInlineFilter ==
    (pc = "parsed" /\ ~preferences.server_types.none) =>
        /\ filtered_servers \in {<<>>, api_servers}
        /\ filtered_servers = api_servers <=>
               ~type_filter_rejects(Range(api_servers[1].groups), preferences.server_types)
        /\ filtered_servers = <<>> => parse_results[1] = ParseNone
        /\ parse_results[1].kind # "None" => filtered_servers = api_servers

\* a record kept by the pre-pass for an alias and parsed to a Server
C28_Witness ==
    /\ pc = "parsed"
    /\ preferences.server_types = ListOf(<<ALIAS_P2P>>)
    /\ filtered_servers = api_servers
    /\ parse_results[1].kind = "Server"

(***************************************************************************)
(* The report of the root script (SpecRoot)                                *)
(***************************************************************************)
\* C29: main() reports 'Process failed - no configurations were generated'
\* whenever generate_configs ended without writing a configuration because
\* the server-list or the location fetch failed, and reports completion
\* only when the configurations were written
C29_ReportMatchesOutcome ==
    (pc = "done" /\ report # "none") =>
        /\ result \in {"Failed to get servers", "Failed to get location"}
              => report = "Process failed"
        /\ report = "Process completed" => result = "saved"

(***************************************************************************)
(* The end of the write phase (SpecWrite)                                  *)
(***************************************************************************)
\* C30: servers.json is written only after every config-file write task of
\* both batches has completed, and generate returns the output directory
\* only after servers.json has been written
C30_ServersJsonAfterAllWrites ==
    /\ (pc = "json" \/ <<"servers.json">> \in files) =>
          /\ Len(save_tasks) = Len(sorted_servers) + Len(best_servers)
          /\ Len(write_state) = Len(save_tasks)
          /\ \A i \in 1..Len(save_tasks) :
                write_state[i] = "done" /\ TaskFile(save_tasks[i]) \in files
    /\ result = "output_dir" => <<"servers.json">> \in files

\* a run of both batches is over with servers.json written
C30_Witness ==
    /\ pc = "done"
    /\ result = "output_dir"
    /\ <<"servers.json">> \in files
    /\ Len(sorted_servers) >= 2
    /\ \E i \in 1..Len(save_tasks) : save_tasks[i].subfolder = STR_BEST_CONFIGS

====
